---- MODULE Spec2Model ----
(***************************************************************************)
(* A model of terra_os_kernel's heap allocator (src/terra_os_kernel/src/   *)
(* allocator.rs): an intrusive singly linked free list threaded through    *)
(* the heap bytes, a head word mutated by compare-and-swap (push) and by   *)
(* a plain store (remove), and six statistics counters.                    *)
(*                                                                         *)
(* Spec     : one caller; init, alloc and dealloc are whole-call actions.  *)
(* SpecConc : several callers on an initialised allocator; every load,     *)
(*            store, read-modify-write and header access is one step.      *)
(* SpecBoot : the kernel's boot, main.rs's _start into Terminal::run, up   *)
(*            to the allocation requests the typed keys cause.             *)
(*                                                                         *)
(* Memory is the map `mem` from the addresses at which a ListNode header   *)
(* has been written to the header's fields; next = 0 stands for None.      *)
(* A usize is modelled with 30 bits (TLC's integers have 32): wide enough  *)
(* for every address of the modelled region, and a subtraction that        *)
(* underflows wraps modulo UsizeMod as a wrapping build does.              *)
(*                                                                         *)
(* A call that panics (a failed assertion, an overflow check) halts the    *)
(* kernel: main.rs's panic handler loops forever.  A call whose            *)
(* subtraction wrapped completes as coded and is the last call modelled:   *)
(* it has put a node of about 2^64 bytes into the free list, so what       *)
(* follows is no longer a behaviour of the allocator over its region.      *)
(***************************************************************************)
EXTENDS Integers, Sequences, FiniteSets, TLC

VARIABLES
    head,               \* LinkedListAllocator.head (0 = empty)
    mem,                \* address -> [size, next] : the ListNode headers in memory
    total_allocated,    \* the six statistics counters
    total_freed,
    allocation_count,
    deallocation_count,
    current_allocated,
    max_allocated,
    live,               \* the caller's live allocations: [ptr, size, align]
    region,             \* [start, size] passed to init, or NoRegion
    halted,             \* "no" | "panic" (assertion / overflow check) | "wrapped"
    last,               \* the last completed call: its arguments, result and pre-state
    tight,              \* the tight alloc/dealloc loop the caller is in, if any
    pc,                 \* SpecConc: where each caller stands in its call
    loc,                \* SpecConc: each caller's local variables
    boot,               \* SpecBoot: where the kernel's boot stands, and what it has called
    term,               \* the Terminal's fields and read_line's locals
    fs,                 \* SpecFs: the three file systems and the last call made on one
    cmd,                \* SpecRm: where handle_rm_command stands, and its locals
    keys                \* SpecLine: the keyboard events read_line has been given

vars == <<head, mem, total_allocated, total_freed, allocation_count,
          deallocation_count, current_allocated, max_allocated, live, region,
          halted, last, tight, pc, loc, boot, term, fs, cmd, keys>>

(***************************************************************************)
(* Program constants                                                       *)
(***************************************************************************)
\* allocator.rs:5  pub const HEAP_START: usize = 0x_500_000;
HEAP_START == 5242880

\* allocator.rs:6  pub const HEAP_SIZE: usize = 100 * 1024;
HEAP_SIZE == 102400

\* size_of::<ListNode>() on the kernel's 64-bit target: usize (8) +
\* Option<*mut ListNode> (16: a raw pointer has no niche).
HeaderSize == 24

(***************************************************************************)
(* Bounds of the model                                                     *)
(***************************************************************************)
\* the largest heap_size handed to init (HEAP_SIZE is 100 KiB in the source)
MaxHeap == 144

\* the modelled usize has 30 bits
UsizeMod == 2 ^ 30

\* heap sizes init is called with: one below the header size, two usable ones
InitSizes == {HeaderSize - 8, 100 + HeaderSize, MaxHeap - 16, MaxHeap}

\* layout.size() and layout.align() of the requests
ReqSizes == {1, 25, 32, 100, MaxHeap - 8, MaxHeap + 8}

ReqAligns == {1, 8, 64}

NoRegion == [start |-> 0, size |-> 0]

NoLoop == [on |-> FALSE, size |-> 0, align |-> 0, iters |-> 0]

\* SpecConc: the callers, the cycles each performs, the region and the requests
Procs == {1, 2}

MaxCycles == 2

ConcHeap == MaxHeap

ConcSizes == {24, 48}

ConcAligns == {8}

\* SpecBoot: new_line calls after which the screen is no longer followed
MaxNewLines == 10

\* terminal/mod.rs:95
BUFFER_WIDTH == 80

\* terminal/mod.rs:94
BUFFER_HEIGHT == 25

\* no character cell written yet
NoCell == [row |-> 0, col |-> 0, written |-> FALSE, scrolled |-> FALSE]

NotBooting == [pc |-> "none", inits |-> 0, allocs |-> 0]

NoTerminal == [column_position |-> 0, shift_pressed |-> FALSE, last_scancode |-> 0,
               line |-> <<>>, newlines |-> 0, cell |-> NoCell]

\* TestFileSystem::new (test_fs.rs:10-14) and FileSystem::new
\* (test_all_commands.rs:21-59): an item is its path from the root
NoCall == [on |-> "none", op |-> "none", name |-> "", result |-> "Ok", before |-> {},
           before_seq |-> <<>>]

NoFs == [directories |-> <<>>,
         items |-> {[path |-> <<"bin">>, is_directory |-> TRUE],
                    [path |-> <<"etc">>, is_directory |-> TRUE],
                    [path |-> <<"README.txt">>, is_directory |-> FALSE]},
         current_path |-> <<>>,
         call |-> NoCall]

NoCmd == [pc |-> "none", parts |-> <<>>, recursive |-> FALSE, force |-> FALSE,
          name |-> "", answered |-> FALSE, response |-> <<>>, out |-> "", deleted |-> 0,
          buf |-> [ptr |-> 0, size |-> 0, align |-> 0],
          resp |-> [ptr |-> 0, size |-> 0, align |-> 0],
          dev |-> [ptr |-> 0, size |-> 0, align |-> 0]]

Idle == [lsize |-> 0, align |-> 0, size |-> 0, current_head |-> 0, prev |-> 0,
         node |-> 0, next_node |-> 0, ptr |-> 0, push |-> 0, rem |-> 0,
         then |-> "", current_max |-> 0, new_max |-> 0, held |-> 0,
         held_size |-> 0, cycles |-> 0, nulls |-> 0, got |-> 0]

(***************************************************************************)
(* Pure helpers                                                            *)
(***************************************************************************)
Max(a, b) == IF a >= b THEN a ELSE b

RECURSIVE BitAnd(_, _)
BitAnd(a, b) ==
    IF a = 0 \/ b = 0 THEN 0
    ELSE 2 * BitAnd(a \div 2, b \div 2) + (IF a % 2 = 1 /\ b % 2 = 1 THEN 1 ELSE 0)

\* !x on a usize
BitNot(x) == UsizeMod - 1 - x

\* fn align_up(addr, align) = (addr + align - 1) & !(align - 1)
align_up(addr, align) == BitAnd((addr + align - 1) % UsizeMod, BitNot(align - 1))

\* a layout size taken as it is, not raised to the header size
RawSize(size) == size

\* layout.size().max(size_of::<ListNode>())
RoundSize(size) == Max(size, HeaderSize)

\* find_free_region, lines 71-72
aligned_start(node, align) == align_up(node + HeaderSize, align)

required_size(node, size, align) ==
    size + (aligned_start(node, align) - (node + HeaderSize))

\* a fit test that forgets the requested size
Fits_ignoring_size(m, node, size, align) ==
    m[node].size >= aligned_start(node, align) - (node + HeaderSize)

\* find_free_region, line 74: the fit test
Fits(m, node, size, align) == m[node].size >= required_size(node, size, align)

\* find_free_region: the walk from current_head with predecessor prev.
\* `seen` stops the walk on a cycle (the code would not return): found = "loop".
RECURSIVE FindFrom(_, _, _, _, _, _)
FindFrom(m, cur, prev, size, align, seen) ==
    IF cur = 0 THEN [found |-> "none", prev |-> 0, node |-> 0]
    ELSE IF cur \in seen \/ cur \notin DOMAIN m
         THEN [found |-> "loop", prev |-> 0, node |-> 0]
    ELSE IF Fits(m, cur, size, align)
         THEN [found |-> "some", prev |-> prev, node |-> cur]
    ELSE FindFrom(m, m[cur].next, cur, size, align, seen \cup {cur})

\* a search that never returns the head node
find_free_region_after_head(m, h, size, align) ==
    IF h = 0 THEN [found |-> "none", prev |-> 0, node |-> 0]
    ELSE FindFrom(m, m[h].next, h, size, align, {h})

find_free_region(m, h, size, align) == FindFrom(m, h, 0, size, align, {})

\* the nodes reachable from h, in chain order (stops on a cycle)
RECURSIVE ChainFrom(_, _, _)
ChainFrom(m, h, seen) ==
    IF h = 0 \/ h \in seen \/ h \notin DOMAIN m THEN <<>>
    ELSE <<h>> \o ChainFrom(m, m[h].next, seen \cup {h})

Chain(m, h) == ChainFrom(m, h, {})

ChainNodes(m, h) == {Chain(m, h)[i] : i \in 1..Len(Chain(m, h))}

RECURSIVE SumSizes(_, _)
SumSizes(m, c) == IF c = <<>> THEN 0 ELSE m[Head(c)].size + SumSizes(m, Tail(c))

\* a get_free_memory that reports the first node only
get_free_memory_of_head(m, h) == IF h = 0 \/ h \notin DOMAIN m THEN 0 ELSE m[h].size

\* get_free_memory: the sum of the sizes along the chain
get_free_memory(m, h) == SumSizes(m, Chain(m, h))

\* following next links from h reaches the empty sentinel 0 without visiting
\* a node twice
RECURSIVE ReachesEnd(_, _, _)
ReachesEnd(m, h, seen) ==
    IF h = 0 THEN TRUE
    ELSE IF h \in seen \/ h \notin DOMAIN m THEN FALSE
    ELSE ReachesEnd(m, m[h].next, seen \cup {h})

Acyclic(m, h) == ReachesEnd(m, h, {})

\* a header write that does not link the node to anything
WriteNodeUnlinked(m, addr, sz, nx) ==
    [a \in DOMAIN m \cup {addr} |-> IF a = addr THEN [size |-> sz, next |-> 0] ELSE m[a]]

\* a header write that links the node past the node it was given
WriteNodePastHead(m, addr, sz, nx) ==
    [a \in DOMAIN m \cup {addr} |->
        IF a = addr
        THEN [size |-> sz, next |-> IF nx \in DOMAIN m THEN m[nx].next ELSE 0]
        ELSE m[a]]

\* mem with the header at addr written
WriteNode(m, addr, sz, nx) ==
    [a \in DOMAIN m \cup {addr} |-> IF a = addr THEN [size |-> sz, next |-> nx] ELSE m[a]]

Stats == [total_allocated |-> total_allocated, total_freed |-> total_freed,
          allocation_count |-> allocation_count,
          deallocation_count |-> deallocation_count,
          current_allocated |-> current_allocated, max_allocated |-> max_allocated]

PreState == [head |-> head, mem |-> mem, stats |-> Stats,
             free |-> get_free_memory(mem, head), region |-> region]

(***************************************************************************)
(* The calls, as the code performs them for one caller                     *)
(***************************************************************************)
\* remove_node(prev, node): the head store (line 90) or the predecessor's
\* next field (line 93); next_node is (*node_ptr).next as read on line 86
remove_node_head(h, prev, next_node) == IF prev = 0 THEN next_node ELSE h

\* a remove_node that leaves the predecessor's next as it was
remove_node_mem_unlinked(m, prev, next_node) == m

remove_node_mem(m, prev, next_node) ==
    IF prev = 0 THEN m
    ELSE [m EXCEPT ![prev] = [size |-> m[prev].size, next |-> next_node]]

\* an alloc that hands out the first byte after the header, unaligned
alloc_start_unaligned(node, align) == node + HeaderSize

\* alloc, lines 171-172
alloc_start(node, align) == align_up(node + HeaderSize, align)

alloc_end(node, size, align) == alloc_start(node, align) + size

\* alloc, line 174: node.size - (alloc_end - node), as a wrapping build
\* computes it; Underflows tells when an overflow-checking build panics there
Underflows(m, node, size, align) == m[node].size < alloc_end(node, size, align) - node

\* a split that measures the tail from alloc_start instead of from the node
remaining_size_after_start(m, node, size, align) ==
    (m[node].size - (alloc_end(node, size, align) - alloc_start(node, align))) % UsizeMod

remaining_size(m, node, size, align) ==
    (m[node].size - (alloc_end(node, size, align) - node)) % UsizeMod

\* an add_free_region without its assertion
RegionAssertOff(size) == size >= 0

\* add_free_region, line 43: assert!(size >= size_of::<ListNode>())
RegionAssertHolds(size) == size >= HeaderSize

\* the max_allocated update loop, lines 185-200, run by a single caller
\* a high-water mark that is overwritten with the current value
NewMaxOverwritten(cur, mx) == cur

NewMax(cur, mx) == IF cur > mx THEN cur ELSE mx

StatsUnchanged ==
    UNCHANGED <<total_allocated, total_freed, allocation_count,
                deallocation_count, current_allocated, max_allocated>>

\* a statistics update that counts the bytes but not the call
AllocStatsUncounted(size) ==
    /\ total_allocated' = total_allocated + size
    /\ current_allocated' = current_allocated + size
    /\ max_allocated' = NewMax(current_allocated + size, max_allocated)
    /\ UNCHANGED <<total_freed, deallocation_count, allocation_count>>

\* the statistics update of alloc, lines 180-200
AllocStats(size) ==
    /\ total_allocated' = total_allocated + size
    /\ current_allocated' = current_allocated + size
    /\ allocation_count' = allocation_count + 1
    /\ max_allocated' = NewMax(current_allocated + size, max_allocated)
    /\ UNCHANGED <<total_freed, deallocation_count>>

\* a statistics update of dealloc that leaves current_allocated as it was
DeallocStatsKeepCurrent(size) ==
    /\ total_freed' = total_freed + size
    /\ deallocation_count' = deallocation_count + 1
    /\ UNCHANGED <<total_allocated, allocation_count, max_allocated, current_allocated>>

\* the statistics update of dealloc, lines 215-217
DeallocStats(size) ==
    /\ total_freed' = total_freed + size
    /\ current_allocated' = current_allocated - size
    /\ deallocation_count' = deallocation_count + 1
    /\ UNCHANGED <<total_allocated, allocation_count, max_allocated>>

\* the record of a completed call: what it was given, what it returned, the
\* state it started in, and the call before it
Call(op, size, align, ptr, result) ==
    [op |-> op, size |-> size, align |-> align, ptr |-> ptr, result |-> result,
     value |-> 0,
     pre |-> PreState,
     prev |-> [op |-> last.op, ptr |-> last.ptr, result |-> last.result,
               free |-> last.pre.free]]

\* an add_free_region that records the bytes after the header only
add_free_region_usable(m, h, addr, size) == WriteNode(m, addr, size - HeaderSize, h)

\* add_free_region(addr, size) past its assertion: ptr::write of the header
\* (line 47) and add_node's link to the current head (line 55)
add_free_region_mem(m, h, addr, size) == WriteNode(m, addr, size, h)

(***************************************************************************)
(* Spec: a single caller                                                   *)
(***************************************************************************)
\* a constructor that starts with a node on the list
InitWithNode ==
    /\ head = HEAP_START
    /\ mem = WriteNode(<<>>, HEAP_START, MaxHeap, 0)
    /\ total_allocated = 0
    /\ total_freed = 0
    /\ allocation_count = 0
    /\ deallocation_count = 0
    /\ current_allocated = 0
    /\ max_allocated = 0
    /\ live = {}
    /\ region = NoRegion
    /\ halted = "no"
    /\ last = [op |-> "none", size |-> 0, align |-> 0, ptr |-> 0, result |-> "ok",
               value |-> 0,
               pre |-> [head |-> 0, mem |-> <<>>, free |-> 0, region |-> NoRegion,
                        stats |-> [total_allocated |-> 0, total_freed |-> 0,
                                   allocation_count |-> 0, deallocation_count |-> 0,
                                   current_allocated |-> 0, max_allocated |-> 0]],
               prev |-> [op |-> "none", ptr |-> 0, result |-> "ok", free |-> 0]]
    /\ tight = NoLoop
    /\ pc = [p \in Procs |-> "idle"]
    /\ loc = [p \in Procs |-> Idle]
    /\ boot = NotBooting
    /\ term = NoTerminal
    /\ fs = NoFs
    /\ cmd = NoCmd
    /\ keys = <<>>

\* LinkedListAllocator::new()
Init ==
    /\ head = 0
    /\ mem = <<>>
    /\ total_allocated = 0
    /\ total_freed = 0
    /\ allocation_count = 0
    /\ deallocation_count = 0
    /\ current_allocated = 0
    /\ max_allocated = 0
    /\ live = {}
    /\ region = NoRegion
    /\ halted = "no"
    /\ last = [op |-> "none", size |-> 0, align |-> 0, ptr |-> 0, result |-> "ok",
               value |-> 0,
               pre |-> [head |-> 0, mem |-> <<>>, free |-> 0, region |-> NoRegion,
                        stats |-> [total_allocated |-> 0, total_freed |-> 0,
                                   allocation_count |-> 0, deallocation_count |-> 0,
                                   current_allocated |-> 0, max_allocated |-> 0]],
               prev |-> [op |-> "none", ptr |-> 0, result |-> "ok", free |-> 0]]
    /\ tight = NoLoop
    /\ pc = [p \in Procs |-> "idle"]
    /\ loc = [p \in Procs |-> Idle]
    /\ boot = NotBooting
    /\ term = NoTerminal
    /\ fs = NoFs
    /\ cmd = NoCmd
    /\ keys = <<>>

\* init(heap_start, heap_size) = add_free_region(heap_start, heap_size):
\* the assertion, the header write, the push.
init(heap_start, heap_size) ==
    /\ halted = "no"
    /\ region' = [start |-> heap_start, size |-> heap_size]
    /\ IF RegionAssertHolds(heap_size)
       THEN /\ mem' = add_free_region_mem(mem, head, heap_start, heap_size)
            /\ head' = heap_start
            /\ halted' = halted
            /\ last' = Call("init", heap_size, 0, heap_start, "ok")
       ELSE /\ halted' = "panic"
            /\ last' = Call("init", heap_size, 0, heap_start, "panic")
            /\ UNCHANGED <<mem, head>>
    /\ StatsUnchanged
    /\ UNCHANGED live

\* GlobalAlloc::alloc(layout), lines 163-206
alloc(lsize, align) ==
    /\ halted = "no"
    /\ LET size == RoundSize(lsize)
           r    == find_free_region(mem, head, size, align)
       IN  \/ \* no region fits: null_mut()
              /\ r.found = "none"
              /\ last' = Call("alloc", lsize, align, 0, "null")
              /\ StatsUnchanged
              /\ UNCHANGED <<head, mem, live, region, halted>>
           \/ /\ r.found = "some"
              /\ LET node == r.node
                     h1   == remove_node_head(head, r.prev, mem[node].next)
                     m1   == remove_node_mem(mem, r.prev, mem[node].next)
                     p    == alloc_start(node, align)
                     e    == alloc_end(node, size, align)
                     rem  == remaining_size(mem, node, size, align)
                 IN  \/ \* line 174 underflows and the build checks overflow
                        /\ Underflows(mem, node, size, align)
                        /\ head' = h1 /\ mem' = m1
                        /\ halted' = "panic"
                        /\ last' = Call("alloc", lsize, align, 0, "panic")
                        /\ StatsUnchanged
                        /\ UNCHANGED <<live, region>>
                     \/ \* the tail is smaller than a header: the assertion fails
                        /\ rem > 0 /\ ~RegionAssertHolds(rem)
                        /\ head' = h1 /\ mem' = m1
                        /\ halted' = "panic"
                        /\ last' = Call("alloc", lsize, align, 0, "panic")
                        /\ StatsUnchanged
                        /\ UNCHANGED <<live, region>>
                     \/ \* the call returns alloc_start
                        /\ rem = 0 \/ RegionAssertHolds(rem)
                        /\ IF rem > 0
                           THEN /\ mem' = add_free_region_mem(m1, h1, e, rem)
                                /\ head' = e
                           ELSE /\ mem' = m1
                                /\ head' = h1
                        /\ AllocStats(size)
                        /\ live' = live \cup {[ptr |-> p, size |-> lsize, align |-> align]}
                        /\ halted' = IF Underflows(mem, node, size, align)
                                     THEN "wrapped" ELSE "no"
                        /\ last' = Call("alloc", lsize, align, p,
                                        IF Underflows(mem, node, size, align)
                                        THEN "wrapped" ELSE "ok")
                        /\ UNCHANGED region

\* GlobalAlloc::dealloc(ptr, layout), lines 208-218
dealloc(a) ==
    /\ halted = "no"
    /\ LET size == RoundSize(a.size)
       IN  /\ mem' = WriteNode(mem, a.ptr, size, head)
           /\ head' = a.ptr
           /\ DeallocStats(size)
           /\ live' = live \ {a}
           /\ last' = Call("dealloc", a.size, a.align, a.ptr, "ok")
           /\ UNCHANGED <<region, halted>>

\* The caller's view of its own tight loop (alloc(s, a); dealloc; alloc(s, a);
\* ...) started with nothing outstanding: which request it repeats and how
\* many allocs it has made.
LoopAfterAlloc(s, al, call) ==
    IF tight.on /\ last.op = "dealloc" /\ tight.size = s /\ tight.align = al
    THEN [tight EXCEPT !.iters = @ + 1]
    ELSE IF live = {} /\ region # NoRegion /\ call.result = "ok"
         THEN [on |-> TRUE, size |-> s, align |-> al, iters |-> 1]
         ELSE NoLoop

LoopAfterDealloc(a) ==
    IF tight.on /\ last.op = "alloc" /\ last.ptr = a.ptr THEN tight ELSE NoLoop

\* the caller: init once, then alloc and dealloc of its live allocations
DoInit ==
    /\ region = NoRegion
    /\ \E n \in InitSizes : init(HEAP_START, n)
    /\ tight' = NoLoop
    /\ UNCHANGED <<pc, loc, boot, term, fs, cmd, keys>>

DoAlloc ==
    \E s \in ReqSizes, al \in ReqAligns :
        /\ alloc(s, al)
        /\ tight' = LoopAfterAlloc(s, al, last')
        /\ UNCHANGED <<pc, loc, boot, term, fs, cmd, keys>>

DoDealloc ==
    \E a \in live :
        /\ dealloc(a)
        /\ tight' = LoopAfterDealloc(a)
        /\ UNCHANGED <<pc, loc, boot, term, fs, cmd, keys>>

Next == DoInit \/ DoAlloc \/ DoDealloc

Spec == Init /\ [][Next]_vars

(***************************************************************************)
(* SpecConc: concurrent callers, one memory access per step                *)
(***************************************************************************)
\* the allocator after new() and init(HEAP_START, ConcHeap)
InitConc ==
    /\ head = HEAP_START
    /\ mem = add_free_region_mem(<<>>, 0, HEAP_START, ConcHeap)
    /\ total_allocated = 0
    /\ total_freed = 0
    /\ allocation_count = 0
    /\ deallocation_count = 0
    /\ current_allocated = 0
    /\ max_allocated = 0
    /\ live = {}
    /\ region = [start |-> HEAP_START, size |-> ConcHeap]
    /\ halted = "no"
    /\ last = [op |-> "init", size |-> ConcHeap, align |-> 0, ptr |-> HEAP_START,
               result |-> "ok", value |-> 0,
               pre |-> [head |-> 0, mem |-> <<>>, free |-> 0, region |-> NoRegion,
                        stats |-> [total_allocated |-> 0, total_freed |-> 0,
                                   allocation_count |-> 0, deallocation_count |-> 0,
                                   current_allocated |-> 0, max_allocated |-> 0]],
               prev |-> [op |-> "none", ptr |-> 0, result |-> "ok", free |-> 0]]
    /\ tight = NoLoop
    /\ pc = [p \in Procs |-> "idle"]
    /\ loc = [p \in Procs |-> Idle]
    /\ boot = NotBooting
    /\ term = NoTerminal
    /\ fs = NoFs
    /\ cmd = NoCmd
    /\ keys = <<>>

CallerFrame == UNCHANGED <<live, region, last, tight, boot, term, fs, cmd, keys>>

ListFrame == UNCHANGED <<head, mem>>

Running(p, at) == halted = "no" /\ pc[p] = at

Goto(p, to) == pc' = [pc EXCEPT ![p] = to]

\* what a caller keeps between its calls (got: the bytes its allocs that
\* returned a block were counted for, max(size, H) each)
Rest(p, held, held_size, cycles, nulls) ==
    [Idle EXCEPT !.held = held, !.held_size = held_size, !.align = loc[p].align,
                 !.cycles = cycles, !.nulls = nulls, !.got = loc[p].got]

\* alloc, lines 164-165, and find_free_region's head load, line 64
StartAlloc(p, s, al) ==
    /\ Running(p, "idle")
    /\ loc[p].cycles < MaxCycles
    /\ loc' = [loc EXCEPT ![p] = [Idle EXCEPT !.lsize = s, !.align = al,
                                              !.size = RoundSize(s),
                                              !.current_head = head,
                                              !.cycles = loc[p].cycles,
                                              !.nulls = loc[p].nulls,
                                              !.got = loc[p].got]]
    /\ Goto(p, "find_test")
    /\ ListFrame /\ StatsUnchanged /\ CallerFrame /\ UNCHANGED halted

\* find_free_region, lines 67-77: the loop test and the fit test; alloc
\* returns null_mut() when the walk ends (line 204)
FindTest(p) ==
    /\ Running(p, "find_test")
    /\ LET l == loc[p]
       IN  IF l.current_head = 0
           THEN /\ loc' = [loc EXCEPT ![p] = Rest(p, 0, 0, l.cycles + 1, l.nulls + 1)]
                /\ Goto(p, "idle")
           ELSE IF Fits(mem, l.current_head, l.size, l.align)
           THEN /\ loc' = [loc EXCEPT ![p].node = l.current_head]
                /\ Goto(p, "remove_read")
           ELSE /\ UNCHANGED loc
                /\ Goto(p, "find_next")
    /\ ListFrame /\ StatsUnchanged /\ CallerFrame /\ UNCHANGED halted

\* find_free_region, lines 79-80
FindNext(p) ==
    /\ Running(p, "find_next")
    /\ loc' = [loc EXCEPT ![p].prev = loc[p].current_head,
                          ![p].current_head = mem[loc[p].current_head].next]
    /\ Goto(p, "find_test")
    /\ ListFrame /\ StatsUnchanged /\ CallerFrame /\ UNCHANGED halted

\* remove_node, line 86
RemoveRead(p) ==
    /\ Running(p, "remove_read")
    /\ loc' = [loc EXCEPT ![p].next_node = mem[loc[p].node].next]
    /\ Goto(p, "remove_write")
    /\ ListFrame /\ StatsUnchanged /\ CallerFrame /\ UNCHANGED halted

\* remove_node, lines 87-94: head.store(new_head) or (*prev).next = next_node
RemoveWrite(p) ==
    /\ Running(p, "remove_write")
    /\ head' = remove_node_head(head, loc[p].prev, loc[p].next_node)
    /\ mem' = remove_node_mem(mem, loc[p].prev, loc[p].next_node)
    /\ Goto(p, "split")
    /\ UNCHANGED loc
    /\ StatsUnchanged /\ CallerFrame /\ UNCHANGED halted

\* alloc, lines 170-176: the split.  An underflow of line 174 or a failed
\* assertion of line 43 halts the kernel; a wrapped subtraction is where the
\* model of a wrapping build stops.
Split(p) ==
    /\ Running(p, "split")
    /\ LET l   == loc[p]
           rem == remaining_size(mem, l.node, l.size, l.align)
           p0  == alloc_start(l.node, l.align)
           e   == alloc_end(l.node, l.size, l.align)
       IN  \/ /\ Underflows(mem, l.node, l.size, l.align)
              /\ halted' \in {"panic", "wrapped"}
              /\ UNCHANGED <<pc, loc>>
           \/ /\ ~Underflows(mem, l.node, l.size, l.align)
              /\ rem > 0 /\ ~RegionAssertHolds(rem)
              /\ halted' = "panic"
              /\ UNCHANGED <<pc, loc>>
           \/ /\ ~Underflows(mem, l.node, l.size, l.align)
              /\ rem = 0
              /\ loc' = [loc EXCEPT ![p].ptr = p0]
              /\ Goto(p, "stat_total")
              /\ UNCHANGED halted
           \/ /\ ~Underflows(mem, l.node, l.size, l.align)
              /\ RegionAssertHolds(rem)
              /\ loc' = [loc EXCEPT ![p].ptr = p0, ![p].rem = rem, ![p].push = e]
              /\ Goto(p, "tail_write")
              /\ UNCHANGED halted
    /\ ListFrame /\ StatsUnchanged /\ CallerFrame

\* add_free_region, lines 45-47: ptr::write(node_ptr, ListNode { size, next: None })
TailWrite(p) ==
    /\ Running(p, "tail_write")
    /\ mem' = WriteNode(mem, loc[p].push, loc[p].rem, 0)
    /\ loc' = [loc EXCEPT ![p].then = "stat_total"]
    /\ Goto(p, "push_load")
    /\ UNCHANGED head
    /\ StatsUnchanged /\ CallerFrame /\ UNCHANGED halted

\* add_node, line 53
PushLoad(p) ==
    /\ Running(p, "push_load")
    /\ loc' = [loc EXCEPT ![p].current_head = head]
    /\ Goto(p, "push_link")
    /\ ListFrame /\ StatsUnchanged /\ CallerFrame /\ UNCHANGED halted

\* add_node, line 55
PushLink(p) ==
    /\ Running(p, "push_link")
    /\ mem' = [mem EXCEPT ![loc[p].push] =
                   [size |-> mem[loc[p].push].size, next |-> loc[p].current_head]]
    /\ Goto(p, "push_cas")
    /\ UNCHANGED <<head, loc>>
    /\ StatsUnchanged /\ CallerFrame /\ UNCHANGED halted

\* an add_node that stores the new head without comparing
PushStore(p) ==
    /\ Running(p, "push_cas")
    /\ head' = loc[p].push
    /\ Goto(p, loc[p].then)
    /\ UNCHANGED <<mem, loc>>
    /\ StatsUnchanged /\ CallerFrame /\ UNCHANGED halted

\* add_node, lines 56-57: the compare-exchange succeeds
PushCasOk(p) ==
    /\ Running(p, "push_cas")
    /\ head = loc[p].current_head
    /\ head' = loc[p].push
    /\ Goto(p, loc[p].then)
    /\ UNCHANGED <<mem, loc>>
    /\ StatsUnchanged /\ CallerFrame /\ UNCHANGED halted

\* add_node, line 58: the compare-exchange fails (compare_exchange_weak may
\* fail although the head is the expected one) and hands back the head
PushCasFail(p) ==
    /\ Running(p, "push_cas")
    /\ loc' = [loc EXCEPT ![p].current_head = head]
    /\ Goto(p, "push_link")
    /\ ListFrame /\ StatsUnchanged /\ CallerFrame /\ UNCHANGED halted

\* alloc, line 180
StatTotal(p) ==
    /\ Running(p, "stat_total")
    /\ total_allocated' = total_allocated + loc[p].size
    /\ Goto(p, "stat_current")
    /\ UNCHANGED <<total_freed, allocation_count, deallocation_count,
                   current_allocated, max_allocated, loc>>
    /\ ListFrame /\ CallerFrame /\ UNCHANGED halted

\* alloc, line 181
StatCurrent(p) ==
    /\ Running(p, "stat_current")
    /\ current_allocated' = current_allocated + loc[p].size
    /\ Goto(p, "stat_count")
    /\ UNCHANGED <<total_allocated, total_freed, allocation_count,
                   deallocation_count, max_allocated, loc>>
    /\ ListFrame /\ CallerFrame /\ UNCHANGED halted

\* an alloc that passes line 182 without counting the call
StatCountSkipped(p) ==
    /\ Running(p, "stat_count")
    /\ Goto(p, "max_load")
    /\ UNCHANGED loc
    /\ StatsUnchanged
    /\ ListFrame /\ CallerFrame /\ UNCHANGED halted

\* alloc, line 182
StatCount(p) ==
    /\ Running(p, "stat_count")
    /\ allocation_count' = allocation_count + 1
    /\ Goto(p, "max_load")
    /\ UNCHANGED <<total_allocated, total_freed, deallocation_count,
                   current_allocated, max_allocated, loc>>
    /\ ListFrame /\ CallerFrame /\ UNCHANGED halted

\* alloc, line 185
MaxLoad(p) ==
    /\ Running(p, "max_load")
    /\ loc' = [loc EXCEPT ![p].current_max = max_allocated]
    /\ Goto(p, "max_test")
    /\ ListFrame /\ StatsUnchanged /\ CallerFrame /\ UNCHANGED halted

\* alloc returns alloc_start (line 202): the caller now holds the block
Return(p) ==
    /\ loc' = [loc EXCEPT ![p] = [Rest(p, loc[p].ptr, loc[p].lsize, loc[p].cycles,
                                       loc[p].nulls)
                                      EXCEPT !.got = loc[p].got + loc[p].size]]
    /\ Goto(p, "holding")

\* alloc, line 187: the first load of current_allocated, and the break of
\* line 198
MaxTest(p) ==
    /\ Running(p, "max_test")
    /\ IF current_allocated > loc[p].current_max
       THEN Goto(p, "max_arg") /\ UNCHANGED loc
       ELSE Return(p)
    /\ ListFrame /\ StatsUnchanged /\ CallerFrame /\ UNCHANGED halted

\* alloc, line 190: the second load of current_allocated, the value to store
MaxArg(p) ==
    /\ Running(p, "max_arg")
    /\ loc' = [loc EXCEPT ![p].new_max = current_allocated]
    /\ Goto(p, "max_cas")
    /\ ListFrame /\ StatsUnchanged /\ CallerFrame /\ UNCHANGED halted

\* alloc, lines 188-194: the compare-exchange on max_allocated succeeds
MaxCasOk(p) ==
    /\ Running(p, "max_cas")
    /\ max_allocated = loc[p].current_max
    /\ max_allocated' = loc[p].new_max
    /\ Return(p)
    /\ UNCHANGED <<total_allocated, total_freed, allocation_count,
                   deallocation_count, current_allocated>>
    /\ ListFrame /\ CallerFrame /\ UNCHANGED halted

\* alloc, line 195: it fails (possibly spuriously) and hands back the value
MaxCasFail(p) ==
    /\ Running(p, "max_cas")
    /\ loc' = [loc EXCEPT ![p].current_max = max_allocated]
    /\ Goto(p, "max_test")
    /\ ListFrame /\ StatsUnchanged /\ CallerFrame /\ UNCHANGED halted

\* dealloc, lines 209-211: (*new_node_ptr).size = size.  The next field keeps
\* what the bytes held.
StartDealloc(p) ==
    /\ Running(p, "holding")
    /\ LET ptr == loc[p].held
           sz  == RoundSize(loc[p].held_size)
       IN  /\ mem' = WriteNode(mem, ptr, sz,
                               IF ptr \in DOMAIN mem THEN mem[ptr].next ELSE 0)
           /\ loc' = [loc EXCEPT ![p].push = ptr, ![p].size = sz,
                                 ![p].then = "dstat_freed"]
    /\ Goto(p, "push_load")
    /\ UNCHANGED head
    /\ StatsUnchanged /\ CallerFrame /\ UNCHANGED halted

\* dealloc, line 215
DStatFreed(p) ==
    /\ Running(p, "dstat_freed")
    /\ total_freed' = total_freed + loc[p].size
    /\ Goto(p, "dstat_current")
    /\ UNCHANGED <<total_allocated, allocation_count, deallocation_count,
                   current_allocated, max_allocated, loc>>
    /\ ListFrame /\ CallerFrame /\ UNCHANGED halted

\* dealloc, line 216
DStatCurrent(p) ==
    /\ Running(p, "dstat_current")
    /\ current_allocated' = current_allocated - loc[p].size
    /\ Goto(p, "dstat_count")
    /\ UNCHANGED <<total_allocated, total_freed, allocation_count,
                   deallocation_count, max_allocated, loc>>
    /\ ListFrame /\ CallerFrame /\ UNCHANGED halted

\* dealloc, line 217, and the return: one cycle done
DStatCount(p) ==
    /\ Running(p, "dstat_count")
    /\ deallocation_count' = deallocation_count + 1
    /\ loc' = [loc EXCEPT ![p] = Rest(p, 0, 0, loc[p].cycles + 1, loc[p].nulls)]
    /\ Goto(p, "idle")
    /\ UNCHANGED <<total_allocated, total_freed, allocation_count,
                   current_allocated, max_allocated>>
    /\ ListFrame /\ CallerFrame /\ UNCHANGED halted

NextConc ==
    \E p \in Procs :
        \/ \E s \in ConcSizes, al \in ConcAligns : StartAlloc(p, s, al)
        \/ FindTest(p)
        \/ FindNext(p)
        \/ RemoveRead(p)
        \/ RemoveWrite(p)
        \/ Split(p)
        \/ TailWrite(p)
        \/ PushLoad(p)
        \/ PushLink(p)
        \/ PushCasOk(p)
        \/ PushCasFail(p)
        \/ StatTotal(p)
        \/ StatCurrent(p)
        \/ StatCount(p)
        \/ MaxLoad(p)
        \/ MaxTest(p)
        \/ MaxArg(p)
        \/ MaxCasOk(p)
        \/ MaxCasFail(p)
        \/ StartDealloc(p)
        \/ DStatFreed(p)
        \/ DStatCurrent(p)
        \/ DStatCount(p)

SpecConc == InitConc /\ [][NextConc]_vars

(***************************************************************************)
(* SpecPush: concurrent deallocs only                                      *)
(***************************************************************************)
\* The state after init(HEAP_START, ConcHeap) and one completed alloc(s, 8)
\* per caller, made one after the other: every caller holds its block, no
\* alloc is in flight.  last.pre keeps the list as it is before the pushes.
InitPush ==
    \E s1 \in ConcSizes, s2 \in ConcSizes :
        LET m0 == add_free_region_mem(<<>>, 0, HEAP_START, ConcHeap)
            p1 == alloc_start(HEAP_START, 8)
            e1 == alloc_end(HEAP_START, RoundSize(s1), 8)
            r1 == remaining_size(m0, HEAP_START, RoundSize(s1), 8)
            m1 == add_free_region_mem(m0, 0, e1, r1)
            p2 == alloc_start(e1, 8)
            e2 == alloc_end(e1, RoundSize(s2), 8)
            r2 == remaining_size(m1, e1, RoundSize(s2), 8)
            m2 == IF r2 > 0 THEN add_free_region_mem(m1, 0, e2, r2) ELSE m1
            h2 == IF r2 > 0 THEN e2 ELSE 0
            st == [total_allocated |-> RoundSize(s1) + RoundSize(s2), total_freed |-> 0,
                   allocation_count |-> 2, deallocation_count |-> 0,
                   current_allocated |-> RoundSize(s1) + RoundSize(s2),
                   max_allocated |-> RoundSize(s1) + RoundSize(s2)]
        IN  /\ RegionAssertHolds(r1) /\ ~Underflows(m0, HEAP_START, RoundSize(s1), 8)
            /\ ~Underflows(m1, e1, RoundSize(s2), 8)
            /\ r2 = 0 \/ RegionAssertHolds(r2)
            /\ head = h2
            /\ mem = m2
            /\ total_allocated = st.total_allocated
            /\ total_freed = 0
            /\ allocation_count = 2
            /\ deallocation_count = 0
            /\ current_allocated = st.current_allocated
            /\ max_allocated = st.max_allocated
            /\ live = {[ptr |-> p1, size |-> s1, align |-> 8],
                       [ptr |-> p2, size |-> s2, align |-> 8]}
            /\ region = [start |-> HEAP_START, size |-> ConcHeap]
            /\ halted = "no"
            /\ last = [op |-> "dealloc", size |-> 0, align |-> 8, ptr |-> 0,
                       result |-> "ok", value |-> 0,
                       pre |-> [head |-> h2, mem |-> m2,
                                free |-> get_free_memory(m2, h2),
                                region |-> [start |-> HEAP_START, size |-> ConcHeap],
                                stats |-> st],
                       prev |-> [op |-> "alloc", ptr |-> p2, result |-> "ok",
                                 free |-> get_free_memory(m1, e1)]]
            /\ tight = NoLoop
            /\ pc = [p \in Procs |-> "holding"]
            /\ loc = [p \in Procs |->
                        [Idle EXCEPT !.held = IF p = 1 THEN p1 ELSE p2,
                                     !.held_size = IF p = 1 THEN s1 ELSE s2,
                                     !.align = 8, !.cycles = MaxCycles - 1,
                                     !.got = RoundSize(IF p = 1 THEN s1 ELSE s2)]]
            /\ boot = NotBooting
            /\ term = NoTerminal
            /\ fs = NoFs
            /\ cmd = NoCmd
            /\ keys = <<>>

NextPush ==
    \E p \in Procs :
        \/ StartDealloc(p)
        \/ PushLoad(p)
        \/ PushLink(p)
        \/ PushCasOk(p)
        \/ PushCasFail(p)
        \/ DStatFreed(p)
        \/ DStatCurrent(p)
        \/ DStatCount(p)

SpecPush == InitPush /\ [][NextPush]_vars

(***************************************************************************)
(* SpecBoot: _start, terminal::init, Terminal::run and read_line           *)
(***************************************************************************)
\* the scancodes the keyboard sends: q, a, '.', left shift, backspace, enter,
\* tab, escape, and the releases of a, '.' and left shift
Scancodes == {16, 30, 52, 42, 14, 28, 15, 1, 158, 180, 170}

\* SCANCODE_TO_ASCII / SCANCODE_TO_UPPERCASE, at the scancodes above
\* ("NUL" where the table holds 0)
SCANCODE_TO_ASCII(sc) ==
    IF sc = 16 THEN "q" ELSE IF sc = 30 THEN "a" ELSE IF sc = 52 THEN "." ELSE "NUL"

SCANCODE_TO_UPPERCASE(sc) ==
    IF sc = 16 THEN "Q" ELSE IF sc = 30 THEN "A" ELSE IF sc = 52 THEN ">" ELSE "NUL"

\* Terminal::new_line: scroll, clear the last row, column_position = 0
new_line(t) == [t EXCEPT !.column_position = 0, !.newlines = @ + 1]

\* the cell chars[row][col] that write_byte stores a character to, and
\* whether write_byte called new_line first (lines 143-145)
CellAt(t, scrolled) ==
    [row |-> BUFFER_HEIGHT - 1, col |-> t.column_position, written |-> TRUE,
     scrolled |-> scrolled]

\* a write_byte that never starts a new line by itself
write_byte_unwrapped(t, byte) ==
    IF byte = "\n" THEN new_line(t)
    ELSE [t EXCEPT !.cell = CellAt(t, FALSE), !.column_position = @ + 1]

\* Terminal::write_byte
write_byte(t, byte) ==
    IF byte = "\n" THEN new_line(t)
    ELSE LET t1 == IF t.column_position >= BUFFER_WIDTH THEN new_line(t) ELSE t
         IN  [t1 EXCEPT !.cell = CellAt(t1, t.column_position >= BUFFER_WIDTH),
                        !.column_position = @ + 1]

\* Terminal::write_str
RECURSIVE write_str(_, _)
write_str(t, str) ==
    IF str = <<>> THEN t ELSE write_str(write_byte(t, Head(str)), Tail(str))

\* Terminal::read_byte: a release (bit 0x80) clears shift_pressed for the two
\* shift keys and yields 0; a press yields the scancode
read_byte_value(raw) == IF raw >= 128 THEN 0 ELSE raw

read_byte_term(t, raw) ==
    IF raw \in {170, 182} THEN [t EXCEPT !.shift_pressed = FALSE] ELSE t

\* read_line, lines 233-244: the iteration is skipped (continue) before the
\* scancode is looked at
Skipped(t, sc) == sc = 0 \/ sc = t.last_scancode \/ sc >= 128

\* read_line, line 276: the keys ignored as non-character keys
IgnoredKey(sc) ==
    (1 <= sc /\ sc <= 13) \/ (26 <= sc /\ sc <= 27) \/ (29 <= sc /\ sc <= 31)
        \/ (55 <= sc /\ sc <= 127)

\* read_line, lines 281-287
ascii_char(t, sc) ==
    IF t.shift_pressed THEN SCANCODE_TO_UPPERCASE(sc) ELSE SCANCODE_TO_ASCII(sc)

\* what one iteration of read_line's loop does with the byte read:
\* "skip", "backspace", "enter", "tab", "shift", "ignored", "push", "unknown"
KeyKind(t, raw) ==
    LET sc == read_byte_value(raw)
        t1 == read_byte_term(t, raw)
    IN  IF Skipped(t1, sc) THEN "skip"
        ELSE IF sc = 14 THEN "backspace"
        ELSE IF sc = 28 THEN "enter"
        ELSE IF sc = 15 THEN "tab"
        ELSE IF sc \in {42, 54} THEN "shift"
        ELSE IF IgnoredKey(sc) THEN "ignored"
        ELSE IF ascii_char(t1, sc) # "NUL" THEN "push"
        ELSE "unknown"

\* (write_byte(0x08) is written "BS": any byte but '\n' advances the column)
\* the Terminal after an iteration that neither pushes a character nor ends
\* the line
AfterQuietKey(t, raw) ==
    LET sc   == read_byte_value(raw)
        t1   == read_byte_term(t, raw)
        kind == KeyKind(t, raw)
        t2   == IF kind = "skip" THEN t1 ELSE [t1 EXCEPT !.last_scancode = sc]
    IN  IF kind = "shift" THEN [t2 EXCEPT !.shift_pressed = TRUE]
        ELSE IF kind = "backspace" /\ t2.line # <<>>
             THEN [write_byte(write_byte(write_byte(t2, "BS"), " "), "BS")
                       EXCEPT !.line = SubSeq(t2.line, 1, Len(t2.line) - 1)]
        ELSE IF kind = "unknown" THEN write_byte(t2, "?")
        ELSE t2

\* LinkedListAllocator::new() for the static ALLOCATOR (main.rs:19-20); the
\* boot stands at _start
InitBoot ==
    /\ head = 0
    /\ mem = <<>>
    /\ total_allocated = 0
    /\ total_freed = 0
    /\ allocation_count = 0
    /\ deallocation_count = 0
    /\ current_allocated = 0
    /\ max_allocated = 0
    /\ live = {}
    /\ region = NoRegion
    /\ halted = "no"
    /\ last = [op |-> "none", size |-> 0, align |-> 0, ptr |-> 0, result |-> "ok",
               value |-> 0,
               pre |-> [head |-> 0, mem |-> <<>>, free |-> 0, region |-> NoRegion,
                        stats |-> [total_allocated |-> 0, total_freed |-> 0,
                                   allocation_count |-> 0, deallocation_count |-> 0,
                                   current_allocated |-> 0, max_allocated |-> 0]],
               prev |-> [op |-> "none", ptr |-> 0, result |-> "ok", free |-> 0]]
    /\ tight = NoLoop
    /\ pc = [p \in Procs |-> "idle"]
    /\ loc = [p \in Procs |-> Idle]
    /\ boot = [pc |-> "start", inits |-> 0, allocs |-> 0]
    /\ term = NoTerminal
    /\ fs = NoFs
    /\ cmd = NoCmd
    /\ keys = <<>>

AllocatorFrame ==
    /\ ListFrame /\ StatsUnchanged
    /\ UNCHANGED <<live, region, halted, last, tight, pc, loc, fs, cmd, keys>>

\* _start, main.rs:23-25: the two println! (the VGA writer, no allocation)
BootPrint ==
    /\ boot.pc = "start"
    /\ boot' = [boot EXCEPT !.pc = "terminal_init"]
    /\ UNCHANGED term
    /\ AllocatorFrame

\* _start, main.rs:28: terminal::init(&ALLOCATOR) = Terminal::new(allocator)
TerminalInit ==
    /\ boot.pc = "terminal_init"
    /\ boot' = [boot EXCEPT !.pc = "run"]
    /\ term' = NoTerminal
    /\ AllocatorFrame

\* Terminal::run, lines 311-313: clear() and the banner (three '\n')
RunBanner ==
    /\ boot.pc = "run"
    /\ boot' = [boot EXCEPT !.pc = "prompt"]
    /\ term' = new_line(new_line(new_line([term EXCEPT !.column_position = 0])))
    /\ AllocatorFrame

\* Terminal::run, line 316, and read_line's String::new(), lines 226-228
Prompt ==
    /\ boot.pc = "prompt"
    /\ boot' = [boot EXCEPT !.pc = "read"]
    /\ term' = [write_str(term, <<"$", " ">>) EXCEPT !.line = <<>>, !.last_scancode = 0]
    /\ AllocatorFrame

\* read_line: an iteration that pushes nothing and does not end the line
KeyQuiet(raw) ==
    /\ boot.pc = "read"
    /\ KeyKind(term, raw) \in {"skip", "backspace", "shift", "ignored", "unknown"}
    /\ term' = AfterQuietKey(term, raw)
    /\ UNCHANGED boot
    /\ AllocatorFrame

\* read_line, lines 259-262, and process_command of the empty line, which
\* returns at lines 602-604
KeyEnter(raw) ==
    /\ boot.pc = "read"
    /\ KeyKind(term, raw) = "enter"
    /\ term.line = <<>>
    /\ term.newlines < MaxNewLines
    /\ term' = write_byte([read_byte_term(term, raw) EXCEPT !.last_scancode = 28], "\n")
    /\ boot' = [boot EXCEPT !.pc = "prompt"]
    /\ AllocatorFrame

\* read_line, lines 264-269 and 289-293: line.push on the empty String asks
\* the global allocator for its first buffer (8 bytes, align 1); a null
\* return ends in main.rs's alloc_error_handler, which loops forever
KeyPush(raw) ==
    /\ boot.pc = "read"
    /\ KeyKind(term, raw) \in {"push", "tab"}
    /\ term.line = <<>>
    /\ alloc(8, 1)
    /\ boot' = [boot EXCEPT !.allocs = @ + 1,
                            !.pc = IF last'.result = "ok" THEN "read" ELSE "alloc_error"]
    /\ LET sc == read_byte_value(raw)
           t2 == [read_byte_term(term, raw) EXCEPT !.last_scancode = sc]
           ch == IF KeyKind(term, raw) = "tab" THEN " " ELSE ascii_char(t2, sc)
       IN  term' = IF last'.result = "ok"
                   THEN [write_byte(t2, ch) EXCEPT !.line = <<ch>>]
                   ELSE t2
    /\ UNCHANGED <<tight, pc, loc, fs, cmd, keys>>

NextBoot ==
    \/ BootPrint
    \/ TerminalInit
    \/ RunBanner
    \/ Prompt
    \/ \E raw \in Scancodes : KeyQuiet(raw)
    \/ \E raw \in Scancodes : KeyEnter(raw)
    \/ \E raw \in Scancodes : KeyPush(raw)

SpecBoot == InitBoot /\ [][NextBoot]_vars

(***************************************************************************)
(* SpecReinit: a single caller that calls init a second time               *)
(***************************************************************************)
\* the last call was an init on an allocator that already had its region
SecondInit == last.op = "init" /\ last.pre.region # NoRegion

\* init(HEAP_START, HEAP_SIZE) again, with the arguments of the first call
DoInitAgain ==
    /\ region # NoRegion
    /\ ~SecondInit
    /\ init(region.start, region.size)
    /\ tight' = NoLoop
    /\ UNCHANGED <<pc, loc, boot, term, fs, cmd, keys>>

\* the calls before the second init
DoFirst ==
    /\ ~SecondInit
    /\ Next

NextReinit == DoFirst \/ DoInitAgain

SpecReinit == Init /\ [][NextReinit]_vars

(***************************************************************************)
(* SpecQuery: a single caller that ends with a statistics query            *)
(***************************************************************************)
Getters == {"get_total_allocated", "get_total_freed", "get_current_allocated",
            "get_max_allocated", "get_allocation_count", "get_deallocation_count"}

Queries == Getters \cup {"get_free_memory", "get_memory_stats"}

\* the getters, lines 98-120
Getter(g) ==
    IF g = "get_total_allocated" THEN total_allocated
    ELSE IF g = "get_total_freed" THEN total_freed
    ELSE IF g = "get_current_allocated" THEN current_allocated
    ELSE IF g = "get_max_allocated" THEN max_allocated
    ELSE IF g = "get_allocation_count" THEN allocation_count
    ELSE deallocation_count

\* get_memory_stats, lines 136-147
get_memory_stats ==
    [total_heap_size    |-> HEAP_SIZE,
     allocated          |-> Getter("get_current_allocated"),
     freed              |-> Getter("get_total_freed"),
     current_allocated  |-> Getter("get_current_allocated"),
     max_allocated      |-> Getter("get_max_allocated"),
     allocation_count   |-> Getter("get_allocation_count"),
     deallocation_count |-> Getter("get_deallocation_count"),
     free_memory        |-> get_free_memory(mem, head)]

\* the record of a query and the value it returned
Query(op, v) == [Call(op, 0, 0, 0, "ok") EXCEPT !.value = v]

Queried == last.op \in Queries

\* a query takes &self and only loads
QueryFrame ==
    /\ ListFrame /\ StatsUnchanged
    /\ UNCHANGED <<live, region, halted, tight, pc, loc, boot, term, fs, cmd, keys>>

\* a query is made by a kernel that has not panicked; it is the caller's
\* last call
CanQuery == ~Queried /\ halted # "panic"

DoGetter ==
    /\ CanQuery
    /\ \E g \in Getters : last' = Query(g, Getter(g))
    /\ QueryFrame

\* get_free_memory returns when its walk ends
DoGetFreeMemory ==
    /\ CanQuery
    /\ Acyclic(mem, head)
    /\ last' = Query("get_free_memory", get_free_memory(mem, head))
    /\ QueryFrame

DoGetMemoryStats ==
    /\ CanQuery
    /\ Acyclic(mem, head)
    /\ last' = Query("get_memory_stats", get_memory_stats)
    /\ QueryFrame

\* the calls before the query
DoCall ==
    /\ ~Queried
    /\ Next

NextQuery == DoCall \/ DoGetter \/ DoGetFreeMemory \/ DoGetMemoryStats

SpecQuery == Init /\ [][NextQuery]_vars

(***************************************************************************)
(* Shapes the claims speak of                                              *)
(***************************************************************************)
\* the bytes a live allocation occupies: [ptr, ptr + max(size, H))
LiveLo(a) == a.ptr

LiveHi(a) == a.ptr + RoundSize(a.size)

HeapLo == region.start

HeapHi == region.start + region.size

Disjoint(lo1, hi1, lo2, hi2) == hi1 <= lo2 \/ hi2 <= lo1

FreeBytes == get_free_memory(mem, head)

Returned == last.op = "alloc" /\ last.result \in {"ok", "wrapped"}

(***************************************************************************)
(* Claims checked under Spec                                               *)
(***************************************************************************)
\* C1 (as claimed): on an initialised allocator used by one caller in
\* contract, the ranges [p, p + max(size, H)) of the live allocations are
\* pairwise disjoint and each lies inside [heap_start, heap_start + heap_size).
C1_LiveRangesDisjointInHeap ==
    region # NoRegion =>
        /\ \A a \in live : HeapLo <= LiveLo(a) /\ LiveHi(a) <= HeapHi
        /\ \A a, b \in live :
               a # b => Disjoint(LiveLo(a), LiveHi(a), LiveLo(b), LiveHi(b))

\* C3 (as claimed): every alloc on an initialised allocator completes by
\* returning a pointer or null; no call aborts on a failed assertion or an
\* arithmetic underflow.
C3_AllocNeverAborts ==
    (region # NoRegion /\ last.op = "alloc") => last.result \in {"ok", "null"}

\* C4: an alloc asking for more bytes than the free list holds in total
\* returns null and changes neither the head, nor any header, nor any of the
\* six counters.
C4_OversizeAllocIsNullAndPure ==
    (last.op = "alloc" /\ last.size > last.pre.free) =>
        /\ last.result = "null"
        /\ last.ptr = 0
        /\ head = last.pre.head
        /\ mem = last.pre.mem
        /\ Stats = last.pre.stats

C4_Witness ==
    /\ last.op = "alloc"
    /\ last.pre.free > 0
    /\ last.size > last.pre.free
    /\ last.result = "null"
    /\ last.pre.stats.allocation_count > 0

\* C5 (as claimed): an alloc immediately followed by the dealloc of the
\* pointer it returned leaves get_free_memory() at its value before the alloc
\* (the code never leaves a tail smaller than a header behind: it panics
\* instead), and current_allocated back at its value before the alloc.
C5_AllocDeallocRestoresFree ==
    (last.op = "dealloc" /\ last.prev.op = "alloc" /\ last.prev.result = "ok"
        /\ last.prev.ptr = last.ptr) =>
        FreeBytes = last.prev.free

\* C6: a successful alloc returns an address that is a multiple of the
\* requested alignment.
C6_ReturnedAddressAligned ==
    Returned => last.ptr % last.align = 0

C6_Witness ==
    /\ Returned
    /\ last.align = 64
    /\ last.pre.head # HEAP_START
    /\ (last.ptr - HeaderSize) \notin DOMAIN last.pre.mem

\* C7 (as claimed): in a tight loop of alloc(s, a) followed by dealloc, started
\* with nothing outstanding, every alloc succeeds and after every dealloc
\* allocation_count = deallocation_count and current_allocated = 0.
C7_TightLoopBalanced ==
    tight.on =>
        /\ last.op = "alloc" => last.result = "ok"
        /\ last.op = "dealloc" =>
               /\ allocation_count = deallocation_count
               /\ current_allocated = 0

\* C10: right after init(start, n) with n >= H on a fresh allocator the free
\* list is the single node start, of size n and with no successor, and
\* get_free_memory() is n.
C10_InitInstallsOneNode ==
    (last.op = "init" /\ last.size >= HeaderSize /\ last.pre.head = 0) =>
        /\ halted = "no"
        /\ head = last.ptr
        /\ Chain(mem, head) = <<last.ptr>>
        /\ mem[last.ptr] = [size |-> last.size, next |-> 0]
        /\ FreeBytes = last.size

C10_Witness ==
    last.op = "init" /\ last.size = MaxHeap /\ last.ptr = HEAP_START /\ head # 0

(***************************************************************************)
(* Claims checked under SpecConc                                           *)
(***************************************************************************)
Holding(p) == pc[p] = "holding"

AllDone == \A p \in Procs : pc[p] = "idle" /\ loc[p].cycles = MaxCycles

Quiescent == \A p \in Procs : pc[p] \in {"idle", "holding"}

HeldLo(p) == loc[p].held

HeldHi(p) == loc[p].held + RoundSize(loc[p].held_size)

\* C2 (as claimed): the callers' live allocations never overlap (two alloc
\* calls never return the same block), no call halts the kernel, and when
\* every caller has done its MaxCycles cycles
\* allocation_count = N * MaxCycles = deallocation_count.
C2_ConcurrentCyclesSafe ==
    /\ \A p, q \in Procs :
           (p # q /\ Holding(p) /\ Holding(q)) =>
               Disjoint(HeldLo(p), HeldHi(p), HeldLo(q), HeldHi(q))
    /\ AllDone =>
           /\ allocation_count = Cardinality(Procs) * MaxCycles
           /\ deallocation_count = Cardinality(Procs) * MaxCycles

\* C8 (as claimed): no step of any interleaving lowers max_allocated.
C8_MaxNeverDecreases == [][max_allocated' >= max_allocated]_vars

\* C9 (as claimed), at the observation points most favourable to it, those
\* where no call is in flight: max_allocated >= current_allocated.
C9_MaxAtLeastCurrent == Quiescent => max_allocated >= current_allocated

\* the free nodes, and the byte range a node claims
FreeNodes == ChainNodes(mem, head)

NodeLo(n) == n

NodeHi(n) == n + mem[n].size

\* C16 (as claimed): in every state a single caller reaches with one init, allocs and
\* matching deallocs, the walk from the head along next reaches 0 without
\* visiting a node twice.
C16_ChainAcyclic == Acyclic(mem, head)

\* C17 (as claimed): every free node's range [node, node + size) lies inside
\* the region, is disjoint from every other free node's range and from every
\* live allocation's range.
C17_FreeRangesDisjointInHeap ==
    \A n \in FreeNodes :
        /\ HeapLo <= NodeLo(n) /\ NodeHi(n) <= HeapHi
        /\ \A k \in FreeNodes \ {n} : Disjoint(NodeLo(n), NodeHi(n), NodeLo(k), NodeHi(k))
        /\ \A a \in live : Disjoint(NodeLo(n), NodeHi(n), LiveLo(a), LiveHi(a))

\* C18: every node on the chain has size >= the header size, whichever of
\* init, the tail split of alloc, or dealloc wrote it.
C18_NodeSizeAtLeastHeader == \A n \in FreeNodes : mem[n].size >= HeaderSize

\* the chain holds the node of a released 1-byte allocation (size rounded to
\* the header size) next to a tail node written by alloc's split
C18_Witness ==
    /\ last.op = "dealloc" /\ last.size = 1
    /\ mem[head].size = HeaderSize
    /\ Len(Chain(mem, head)) >= 2

\* the node alloc takes for the last call, found in the state before it
LastFound ==
    find_free_region(last.pre.mem, last.pre.head, RoundSize(last.size), last.align)

\* the last call was an alloc whose block leaves a tail of 1..H-1 bytes
SmallTail ==
    /\ last.op = "alloc"
    /\ LastFound.found = "some"
    /\ ~Underflows(last.pre.mem, LastFound.node, RoundSize(last.size), last.align)
    /\ remaining_size(last.pre.mem, LastFound.node, RoundSize(last.size), last.align)
           \in 1..(HeaderSize - 1)

\* C19 (as claimed): when the chosen block leaves a tail of 1..H-1 bytes the
\* alloc still returns the pointer, and no free node is created for the tail.
C19_SmallTailIsDropped ==
    SmallTail =>
        /\ last.result = "ok"
        /\ last.ptr = alloc_start(LastFound.node, last.align)
        /\ alloc_end(LastFound.node, RoundSize(last.size), last.align) \notin FreeNodes
        /\ FreeBytes = last.pre.free - last.pre.mem[LastFound.node].size

\* C20: a successful alloc raises total_allocated and current_allocated by
\* exactly max(size, H) and allocation_count by 1 and leaves total_freed and
\* deallocation_count as they were; on a fresh region alloc(100, 8) gives
\* current_allocated = 100 and a request below H counts as H.
C20_AllocCountsRoundedSize ==
    Returned =>
        /\ total_allocated = last.pre.stats.total_allocated + Max(last.size, HeaderSize)
        /\ current_allocated = last.pre.stats.current_allocated + Max(last.size, HeaderSize)
        /\ allocation_count = last.pre.stats.allocation_count + 1
        /\ total_freed = last.pre.stats.total_freed
        /\ deallocation_count = last.pre.stats.deallocation_count
        /\ (last.prev.op = "init" /\ last.size = 100 /\ last.align = 8) =>
               current_allocated = 100
        /\ (last.prev.op = "init" /\ last.size < HeaderSize) =>
               current_allocated = HeaderSize

\* alloc(100, 8) has returned a block on a fresh region
C20_Witness ==
    /\ Returned /\ last.result = "ok"
    /\ last.prev.op = "init"
    /\ last.size = 100 /\ last.align = 8
    /\ current_allocated = 100

\* C13: init(start, size) with size below the header size fails the
\* assertion before any node is written: the call panics, the head is still
\* the empty sentinel 0 and no header was written.
C13_SmallInitAbortsBeforeWrite ==
    (last.op = "init" /\ last.size < HeaderSize) =>
        /\ last.result = "panic"
        /\ halted = "panic"
        /\ head = 0
        /\ mem = last.pre.mem

\* an init with a 16-byte region has been called and has panicked
C13_Witness ==
    /\ last.op = "init" /\ last.size = HeaderSize - 8
    /\ last.pre.head = 0
    /\ halted = "panic"

\* C15 (as claimed): every change of the free-list head is a compare-and-swap
\* against the head value the operation read earlier: the head being replaced
\* is the one add_node loaded (lines 53, 58) or, when alloc removes the head
\* node, the node that find_free_region found at the head.
C15_HeadWritesAreCas ==
    [][head' # head =>
          \E p \in Procs :
              /\ pc'[p] # pc[p]
              /\ \/ pc[p] = "push_cas" /\ head = loc[p].current_head
                 \/ pc[p] = "remove_write" /\ head = loc[p].node]_vars

(***************************************************************************)
(* Claims checked under SpecPush                                           *)
(***************************************************************************)
AllReturned == \A p \in Procs : pc[p] = "idle"

\* C14: with deallocs only, in every interleaving the chain stays acyclic,
\* and once all pushes have returned every pushed node is on the chain exactly
\* once and every node linked before the pushes is still on it.
C14_ConcurrentPushesKeepNodes ==
    /\ Acyclic(mem, head)
    /\ ChainNodes(last.pre.mem, last.pre.head) \subseteq ChainNodes(mem, head)
    /\ AllReturned =>
          /\ {a.ptr : a \in live} \subseteq ChainNodes(mem, head)
          /\ Len(Chain(mem, head)) =
                 Len(Chain(last.pre.mem, last.pre.head)) + Cardinality(live)
          /\ Cardinality(ChainNodes(mem, head)) = Len(Chain(mem, head))

\* both callers have returned from dealloc and the chain holds the two blocks
\* in front of the node that was free before
C14_Witness ==
    /\ AllReturned
    /\ deallocation_count = 2
    /\ Len(Chain(mem, head)) = 3

(***************************************************************************)
(* Claims checked under SpecBoot                                           *)
(***************************************************************************)
\* C11 (as claimed): in the boot sequence init is called exactly once on the
\* global allocator, before the first alloc request reaches it.
C11_InitOnceBeforeFirstAlloc ==
    boot.allocs > 0 => (boot.inits = 1 /\ region # NoRegion)

(***************************************************************************)
(* Claims checked under SpecReinit                                         *)
(***************************************************************************)
\* C12 (as claimed): a second init on an initialised allocator is stopped by
\* an assertion, and the free list is exactly as before the call: same head,
\* same headers, no cycle.
C12_SecondInitAbortsListUnchanged ==
    SecondInit =>
        /\ last.result = "panic"
        /\ head = last.pre.head
        /\ mem = last.pre.mem
        /\ Acyclic(mem, head)

(***************************************************************************)
(* Claims about the statistics, checked under Spec                         *)
(***************************************************************************)
\* C21: dealloc(ptr, layout) raises total_freed by exactly max(size, H),
\* lowers current_allocated by the same amount, raises deallocation_count by
\* 1 and leaves total_allocated, allocation_count and max_allocated alone.
C21_DeallocCountsRoundedSize ==
    last.op = "dealloc" =>
        /\ total_freed = last.pre.stats.total_freed + Max(last.size, HeaderSize)
        /\ current_allocated =
               last.pre.stats.current_allocated - Max(last.size, HeaderSize)
        /\ deallocation_count = last.pre.stats.deallocation_count + 1
        /\ total_allocated = last.pre.stats.total_allocated
        /\ allocation_count = last.pre.stats.allocation_count
        /\ max_allocated = last.pre.stats.max_allocated

\* a 1-byte block has been released while another block is outstanding
C21_Witness ==
    /\ last.op = "dealloc" /\ last.size = 1
    /\ total_freed = HeaderSize
    /\ current_allocated > 0
    /\ max_allocated > current_allocated

(***************************************************************************)
(* Claims about the statistics, checked under SpecConc                     *)
(***************************************************************************)
RECURSIVE SumOver(_, _)
SumOver(f, S) ==
    IF S = {} THEN 0
    ELSE LET x == CHOOSE y \in S : TRUE IN f[x] + SumOver(f, S \ {x})

\* what the callers' own records of their calls add up to
Holds(p) == IF pc[p] = "holding" THEN 1 ELSE 0

TraceAllocs == SumOver([p \in Procs |-> loc[p].cycles - loc[p].nulls + Holds(p)], Procs)

TraceDeallocs == SumOver([p \in Procs |-> loc[p].cycles - loc[p].nulls], Procs)

TraceAllocated == SumOver([p \in Procs |-> loc[p].got], Procs)

TraceFreed ==
    SumOver([p \in Procs |-> loc[p].got - Holds(p) * RoundSize(loc[p].held_size)], Procs)

\* C22: once every call of the concurrent callers has returned, the counters
\* are what the trace of calls gives: allocation_count the allocs that
\* returned a block, deallocation_count the deallocs, total_allocated and
\* total_freed the sums of their rounded sizes, and current_allocated their
\* difference.
C22_CountersMatchTrace ==
    Quiescent =>
        /\ allocation_count = TraceAllocs
        /\ deallocation_count = TraceDeallocs
        /\ total_allocated = TraceAllocated
        /\ total_freed = TraceFreed
        /\ current_allocated = total_allocated - total_freed

\* both callers have finished their cycles with every alloc returning a
\* block, one of them at least of 48 bytes
C22_Witness ==
    /\ AllDone
    /\ halted = "no"
    /\ allocation_count = 2 * MaxCycles
    /\ deallocation_count = 2 * MaxCycles
    /\ total_freed > 2 * MaxCycles * HeaderSize

FreeWalkEnds == ReachesEnd(mem, head, {})

\* the walk of find_free_region for alloc(lsize, align) ends, with a node or
\* with None
FindWalkEnds(lsize, align) ==
    find_free_region(mem, head, RoundSize(lsize), align).found \in {"none", "some"}

\* C24 (as claimed): in every state reached by in-contract use, a
\* get_free_memory call and every alloc call made there terminate: their
\* walks of the chain come to an end without visiting a node twice.
C24_WalksTerminate ==
    /\ FreeWalkEnds
    /\ \A s \in ReqSizes, al \in ReqAligns : FindWalkEnds(s, al)

(***************************************************************************)
(* Claims about the chain after a call, checked under Spec                 *)
(***************************************************************************)
\* C25: dealloc adds exactly one node, the released block, in front of the
\* chain and changes neither the address nor the size of any node that was
\* on it: no node is merged with a neighbour.
C25_DeallocNeverMerges ==
    last.op = "dealloc" =>
        /\ Chain(mem, head) = <<last.ptr>> \o Chain(last.pre.mem, last.pre.head)
        /\ \A n \in ChainNodes(last.pre.mem, last.pre.head) :
               mem[n].size = last.pre.mem[n].size
        /\ mem[last.ptr].size = Max(last.size, HeaderSize)

\* the released block ends exactly where a node that was already free begins
C25_Witness ==
    /\ last.op = "dealloc"
    /\ last.ptr + Max(last.size, HeaderSize) \in ChainNodes(last.pre.mem, last.pre.head)
    /\ Len(Chain(mem, head)) >= 2

(***************************************************************************)
(* Claims about the statistics queries, checked under SpecQuery            *)
(***************************************************************************)
\* the sum of the size fields of the nodes reachable from the head
ReachableBytes == SumOver([n \in FreeNodes |-> mem[n].size], FreeNodes)

\* C26: get_free_memory returns exactly the sum of the sizes of the nodes
\* reachable from the head at the time of the call, and every statistics
\* query leaves the head, the headers and all counters as they were.
C26_QueriesArePureReads ==
    /\ last.op = "get_free_memory" => last.value = ReachableBytes
    /\ Queried =>
          /\ head = last.pre.head
          /\ mem = last.pre.mem
          /\ Stats = last.pre.stats

\* get_free_memory has summed a chain of three nodes
C26_Witness ==
    /\ last.op = "get_free_memory"
    /\ Len(Chain(mem, head)) = 3
    /\ last.value > mem[head].size

\* C27 (as claimed): the field `allocated` of the snapshot returned by
\* get_memory_stats is the cumulative number of bytes allocated.
C27_SnapshotAllocatedIsCumulative ==
    last.op = "get_memory_stats" => last.value.allocated = total_allocated

(***************************************************************************)
(* Claims about find_free_region and the split, checked under Spec         *)
(***************************************************************************)
\* the chain the last call started with
PreChain == Chain(last.pre.mem, last.pre.head)

\* the code's fit test for the last call, at node n of the state before it
LastFits(n) == Fits(last.pre.mem, n, RoundSize(last.size), last.align)

LastAllocFound == last.op = "alloc" /\ LastFound.found = "some"

\* C28 (as claimed): a node returned by find_free_region(size, align) holds
\* the whole allocation: node.size >= (aligned_start + size) - node.
C28_FoundNodeHoldsAllocation ==
    LastAllocFound =>
        last.pre.mem[LastFound.node].size >=
            (aligned_start(LastFound.node, last.align) + RoundSize(last.size))
                - LastFound.node

\* C29: find_free_region is first-fit in chain order: the node returned is
\* the first from the head that passes the fit test, the predecessor returned
\* is the node whose next is that node (null for the head), and None is
\* returned exactly when no node passes.
C29_FirstFitInChainOrder ==
    last.op = "alloc" =>
        /\ LastFound.found \in {"none", "some"}
        /\ LastFound.found = "none" <=> \A i \in 1..Len(PreChain) : ~LastFits(PreChain[i])
        /\ last.result = "null" <=> LastFound.found = "none"
        /\ LastFound.found = "some" =>
              \E i \in 1..Len(PreChain) :
                  /\ PreChain[i] = LastFound.node
                  /\ LastFits(PreChain[i])
                  /\ \A j \in 1..(i - 1) : ~LastFits(PreChain[j])
                  /\ LastFound.prev = IF i = 1 THEN 0 ELSE PreChain[i - 1]
                  /\ i > 1 => last.pre.mem[LastFound.prev].next = LastFound.node

\* an alloc has taken the second node of the chain, the head having failed
\* the fit test
C29_Witness ==
    /\ LastAllocFound
    /\ last.result = "ok"
    /\ Len(PreChain) >= 2
    /\ PreChain[2] = LastFound.node
    /\ ~LastFits(PreChain[1])

\* where the block chosen for the last call ended, and the tail it leaves
\* behind the allocation
LastBlockEnd == LastFound.node + last.pre.mem[LastFound.node].size

LastTail ==
    LastBlockEnd - alloc_end(LastFound.node, RoundSize(last.size), last.align)

\* C30: when the chosen block leaves a tail of at least H bytes, alloc pushes
\* exactly one new node, at the allocation's end, whose size is the block's
\* end minus that address: allocation and tail do not overlap and end where
\* the block ended.
C30_TailNodeCoversTheRest ==
    (LastAllocFound /\ LastTail >= HeaderSize) =>
        LET e == last.ptr + RoundSize(last.size)
        IN  /\ last.result = "ok"
            /\ head = e
            /\ mem[e].size = LastBlockEnd - e
            /\ e + mem[e].size = LastBlockEnd
            /\ LastFound.node < last.ptr
            /\ Len(Chain(mem, head)) = Len(PreChain)
            /\ ChainNodes(mem, head) =
                   (ChainNodes(last.pre.mem, last.pre.head) \ {LastFound.node}) \cup {e}

\* a 32-byte allocation was carved out of a block that was not the head and
\* its tail pushed
C30_Witness ==
    /\ LastAllocFound /\ LastTail >= HeaderSize
    /\ last.result = "ok" /\ last.size = 32
    /\ LastFound.prev # 0
    /\ Len(Chain(mem, head)) >= 2

(***************************************************************************)
(* Claims about remove_node and add_node, checked under Spec               *)
(***************************************************************************)
\* the head and the headers right after the remove_node call of the last
\* alloc (line 168), before the split
LastRemovedHead ==
    remove_node_head(last.pre.head, LastFound.prev,
                     last.pre.mem[LastFound.node].next)

LastRemovedMem ==
    remove_node_mem(last.pre.mem, LastFound.prev,
                    last.pre.mem[LastFound.node].next)

Without(c, n) == SelectSeq(c, LAMBDA x : x # n)

\* C31: remove_node(prev, node) detaches exactly that node: the chain is the
\* previous chain with node deleted, the other nodes keep their order and
\* their sizes, and the head changes only when node was the head.
C31_RemoveDetachesOneNode ==
    LastAllocFound =>
        /\ Chain(LastRemovedMem, LastRemovedHead) = Without(PreChain, LastFound.node)
        /\ Len(Chain(LastRemovedMem, LastRemovedHead)) = Len(PreChain) - 1
        /\ \A n \in ChainNodes(LastRemovedMem, LastRemovedHead) :
               LastRemovedMem[n].size = last.pre.mem[n].size
        /\ LastFound.node # last.pre.head => LastRemovedHead = last.pre.head

\* an alloc has removed a node that was not the head, from a chain of three
C31_Witness ==
    /\ LastAllocFound
    /\ LastFound.prev # 0
    /\ Len(PreChain) >= 3
    /\ PreChain[2] = LastFound.node

\* C32: dealloc(ptr, layout) makes the head equal to ptr, with that node's
\* size max(size, H) and its next the previous head: the block released last
\* is the first node the next alloc examines.
C32_DeallocPushesAtHead ==
    last.op = "dealloc" =>
        /\ head = last.ptr
        /\ mem[head].size = Max(last.size, HeaderSize)
        /\ mem[head].next = last.pre.head
        /\ Chain(mem, head)[1] = last.ptr
        /\ \A s \in ReqSizes, al \in ReqAligns :
               Fits(mem, last.ptr, RoundSize(s), al) =>
                   find_free_region(mem, head, RoundSize(s), al).node = last.ptr

\* a block was released onto a non-empty chain
C32_Witness ==
    /\ last.op = "dealloc"
    /\ last.pre.head # 0
    /\ head = last.ptr
    /\ mem[head].next = last.pre.head

\* C33: with a single caller max_allocated is the largest value
\* current_allocated has held after any completed call since new(): it starts
\* equal to current_allocated (0), and every call leaves it at the larger of
\* its old value and the new current_allocated.
C33_MaxIsRunningMaximum ==
    [][max_allocated' = Max(max_allocated, current_allocated')]_vars

\* an alloc has returned a block without raising the mark, which stands above
\* the bytes outstanding now
C33_Witness ==
    /\ last.op = "alloc" /\ last.result = "ok"
    /\ max_allocated > current_allocated
    /\ last.pre.stats.max_allocated = max_allocated
    /\ deallocation_count >= 1

\* C34: an alloc on an allocator whose init was never called returns null,
\* whatever the size and alignment, and leaves the head, the headers and
\* every counter as they were.
C34_AllocBeforeInitIsNull ==
    (last.op = "alloc" /\ last.pre.region = NoRegion) =>
        /\ last.result = "null"
        /\ halted = "no"
        /\ head = 0
        /\ mem = <<>>
        /\ live = {}
        /\ Stats = last.pre.stats
        /\ \A c \in DOMAIN Stats : Stats[c] = 0

\* an alloc was answered before any init, after an earlier alloc was too
C34_Witness ==
    /\ last.op = "alloc"
    /\ last.result = "null"
    /\ last.pre.region = NoRegion
    /\ last.prev.op = "alloc"
    /\ last.size > 1
    /\ last.align > 1

\* C35 (as claimed): in every state a single caller reaches on a region of n
\* bytes, get_free_memory() + current_allocated <= n, and in particular
\* get_free_memory() <= n.
C35_BytesConserved ==
    region # NoRegion =>
        /\ FreeBytes + current_allocated <= region.size
        /\ FreeBytes <= region.size

\* the addresses at which a free-node header has been written
HeaderAddresses == DOMAIN mem

\* C36 (as claimed): every address at which init, the tail split of alloc or
\* dealloc has written a free-node header is a multiple of 8, the header's
\* alignment, whatever the request sizes and alignments were.
C36_HeaderAddressesAligned == \A a \in HeaderAddresses : a % 8 = 0

(***************************************************************************)
(* SpecFs: the three implementations of create_directory                   *)
(***************************************************************************)
\* how deep change_directory may descend
MaxDepth == 1

\* the names the calls are made with
FsNames == {"", "bin", "docs"}

\* Vec::contains / the elements of a Vec
Elements(seq) == {seq[i] : i \in DOMAIN seq}

\* the names in a directory's children map
ChildNames(items, dir) ==
    {it.path[Len(it.path)] :
        it \in {x \in items : Len(x.path) = Len(dir) + 1
                                /\ SubSeq(x.path, 1, Len(dir)) = dir}}

IsItem(items, path) == \E it \in items : it.path = path

IsDirectoryAt(items, path) ==
    path = <<>> \/ \E it \in items : it.path = path /\ it.is_directory

\* FileSystem::get_current_dir / get_current_dir_mut: walk current_path from
\* the root, staying put at a name that is not a child
RECURSIVE get_current_dir_from(_, _, _)
get_current_dir_from(items, cur, rest) ==
    IF rest = <<>> THEN cur
    ELSE IF IsItem(items, Append(cur, Head(rest)))
         THEN get_current_dir_from(items, Append(cur, Head(rest)), Tail(rest))
         ELSE get_current_dir_from(items, cur, Tail(rest))

get_current_dir(f) == get_current_dir_from(f.items, <<>>, f.current_path)

\* SimpleFileSystem::list_directory: the fixed listing
simple_list_directory == {".", "..", "example.txt"}

\* the record of a call other than create_directory
Other(on, op, name) == [NoCall EXCEPT !.on = on, !.op = op, !.name = name]

ChangeTo(path) == Other("FileSystem", "change_directory", path)

InitFs ==
    /\ Init
    /\ fs = NoFs

FsFrame ==
    /\ ListFrame /\ StatsUnchanged
    /\ UNCHANGED <<live, region, halted, last, tight, pc, loc, boot, term, cmd, keys>>

\* TestFileSystem::create_directory
TestFileSystem_create_directory(name) ==
    LET call == [on |-> "TestFileSystem", op |-> "create_directory", name |-> name, result |-> "Ok",
                 before |-> Elements(fs.directories), before_seq |-> fs.directories]
    IN  /\ fs' = IF name = "" \/ name \in Elements(fs.directories)
                 THEN [fs EXCEPT !.call = [call EXCEPT !.result = "Err"]]
                 ELSE [fs EXCEPT !.directories = Append(@, name), !.call = call]
        /\ FsFrame

\* TestFileSystem::remove_directory
TestFileSystem_remove_directory(name) ==
    /\ name \in Elements(fs.directories)
    /\ fs' = [fs EXCEPT !.directories = SelectSeq(@, LAMBDA d : d # name),
                        !.call = Other("TestFileSystem", "remove_directory", name)]
    /\ FsFrame

\* FileSystem::create_directory
create_directory(f, name) ==
    LET current == get_current_dir(f)
        call    == [on |-> "FileSystem", op |-> "create_directory", name |-> name, result |-> "Ok",
                    before |-> ChildNames(f.items, current), before_seq |-> <<>>]
    IN  IF name = "" \/ ~IsDirectoryAt(f.items, current)
            \/ name \in ChildNames(f.items, current)
        THEN [f EXCEPT !.call = [call EXCEPT !.result = "Err"]]
        ELSE [f EXCEPT !.items = @ \cup {[path |-> Append(current, name),
                                         is_directory |-> TRUE]},
                       !.call = call]

FileSystem_create_directory(name) ==
    /\ fs' = create_directory(fs, name)
    /\ FsFrame

\* FileSystem::change_directory
FileSystem_change_directory(path) ==
    /\ fs' = IF path = "/" THEN [fs EXCEPT !.current_path = <<>>, !.call = ChangeTo(path)]
             ELSE IF path = ".."
             THEN [fs EXCEPT !.current_path =
                                 IF @ = <<>> THEN @ ELSE SubSeq(@, 1, Len(@) - 1),
                             !.call = ChangeTo(path)]
             ELSE IF IsDirectoryAt(fs.items, Append(get_current_dir(fs), path))
                     /\ Len(fs.current_path) < MaxDepth
             THEN [fs EXCEPT !.current_path = Append(@, path), !.call = ChangeTo(path)]
             ELSE [fs EXCEPT !.call = [ChangeTo(path) EXCEPT !.result = "Err"]]
    /\ FsFrame

\* FileSystem::delete_item: HashMap::remove drops the item and all below it
FileSystem_delete_item(name) ==
    LET target == Append(get_current_dir(fs), name)
    IN  /\ IsItem(fs.items, target)
        /\ fs' = [fs EXCEPT !.items = {it \in @ : Len(it.path) < Len(target)
                                         \/ SubSeq(it.path, 1, Len(target)) # target},
                            !.call = Other("FileSystem", "delete_item", name)]
        /\ FsFrame

\* SimpleFileSystem::create_directory: Ok(100), whatever the path
SimpleFileSystem_create_directory(path) ==
    /\ fs' = [fs EXCEPT !.call = [on |-> "SimpleFileSystem", op |-> "create_directory",
                                  name |-> path,
                                  result |-> "Ok", before |-> simple_list_directory,
                                  before_seq |-> <<>>]]
    /\ FsFrame

NextFs ==
    \/ \E name \in FsNames : TestFileSystem_create_directory(name)
    \/ \E name \in FsNames : TestFileSystem_remove_directory(name)
    \/ \E name \in FsNames : FileSystem_create_directory(name)
    \/ \E path \in {"/", "..", "bin", "docs"} : FileSystem_change_directory(path)
    \/ \E name \in {"bin", "docs"} : FileSystem_delete_item(name)
    \/ \E path \in FsNames \cup {"example.txt"} : SimpleFileSystem_create_directory(path)

SpecFs == InitFs /\ [][NextFs]_vars

\* the listing of the directory the last create_directory was made in
ListingNow ==
    IF fs.call.on = "TestFileSystem" THEN Elements(fs.directories)
    ELSE IF fs.call.on = "FileSystem" THEN ChildNames(fs.items, get_current_dir(fs))
    ELSE simple_list_directory

CreateRefused ==
    /\ fs.call.result = "Err"
    /\ ListingNow = fs.call.before
    /\ fs.call.on = "TestFileSystem" => fs.directories = fs.call.before_seq

CreateAdded ==
    /\ fs.call.result = "Ok"
    /\ ListingNow = fs.call.before \cup {fs.call.name}
    /\ fs.call.on = "TestFileSystem" =>
           fs.directories = Append(fs.call.before_seq, fs.call.name)

\* C37 (as claimed): a create_directory with an empty name, or with a name
\* that is already in the directory, returns an error and leaves the listing
\* as it was; one with a new non-empty name succeeds and adds exactly that
\* entry. Checked on all three implementations.
C37_CreateDirectoryChecksName ==
    fs.call.op = "create_directory" =>
        IF fs.call.name = "" \/ fs.call.name \in fs.call.before
        THEN CreateRefused
        ELSE CreateAdded

(***************************************************************************)
(* SpecWrite: write_byte calls on a new Terminal                           *)
(***************************************************************************)
\* the bytes written: a letter, a newline, the backspace character
Bytes == {"a", "\n", "BS"}

\* Terminal::new
InitWrite ==
    /\ Init
    /\ term = NoTerminal

TerminalFrame ==
    /\ ListFrame /\ StatsUnchanged
    /\ UNCHANGED <<live, region, halted, last, tight, pc, loc, boot, fs, cmd, keys>>

WriteByte(byte) ==
    /\ term.newlines < MaxNewLines
    /\ term' = write_byte(term, byte)
    /\ TerminalFrame

NextWrite == \E byte \in Bytes : WriteByte(byte)

SpecWrite == InitWrite /\ [][NextWrite]_vars

ColumnInRow(t) ==
    /\ t.column_position <= BUFFER_WIDTH
    /\ t.cell.written => (t.cell.row = BUFFER_HEIGHT - 1 /\ t.cell.col < BUFFER_WIDTH)

\* C39: after any sequence of write_byte calls column_position <= 80, and
\* every character cell written has a column index < 80 on the last row; a
\* byte written when column_position is 80 first scrolls one line and resets
\* the column to 0 (a character then lands in column 0).
C39_ColumnStaysInRow ==
    [][/\ ColumnInRow(term')
       /\ term.column_position = BUFFER_WIDTH =>
              /\ term'.newlines >= term.newlines + 1
              /\ \/ term'.column_position = 0 /\ term'.cell = term.cell
                 \/ /\ term'.cell.written /\ term'.cell.scrolled
                    /\ term'.cell.col = 0
                    /\ term'.column_position = 1]_vars

\* a character was written to column 0 of a fresh line right after the cell
\* in column 79 was
C39_Witness ==
    /\ term.cell.written
    /\ term.cell.scrolled
    /\ term.cell.col = 0
    /\ term.column_position = 1

(***************************************************************************)
(* SpecLine: one call of Terminal::read_line, given keyboard events        *)
(***************************************************************************)
\* how many keyboard events one read_line is given
MaxKeys == 5

\* the keys of the keyboard: q, a, '.', left shift, backspace, enter
LineKeys == {16, 30, 52, 42, 14, 28}

\* the scancode of a key's release
Release(k) == k + 128

\* the keys that are down after the events h
RECURSIVE Down(_)
Down(h) ==
    IF h = <<>> THEN {}
    ELSE LET before == Down(SubSeq(h, 1, Len(h) - 1))
             raw    == h[Len(h)]
         IN  IF raw >= 128 THEN before \ {raw - 128} ELSE before \cup {raw}

\* the events the keyboard can send next: the press of a key that is up, the
\* release of a key that is down
NextEvents(h) ==
    {k \in LineKeys : k \notin Down(h)} \cup {Release(k) : k \in Down(h)}

\* read_line is entered after the prompt (run, line 316) with the allocator
\* as main.rs leaves it (never initialised, heap_size 0 here) or initialised
\* with the region of allocator.rs:5-6
InitLine ==
    /\ \E heap_size \in {0, HEAP_SIZE} :
          /\ region = IF heap_size = 0 THEN NoRegion
                      ELSE [start |-> HEAP_START, size |-> heap_size]
          /\ head = IF heap_size = 0 THEN 0 ELSE HEAP_START
          /\ mem = IF heap_size = 0 THEN <<>>
                   ELSE add_free_region_mem(<<>>, 0, HEAP_START, heap_size)
          /\ boot = [pc |-> "read", inits |-> IF heap_size = 0 THEN 0 ELSE 1,
                     allocs |-> 0]
    /\ total_allocated = 0
    /\ total_freed = 0
    /\ allocation_count = 0
    /\ deallocation_count = 0
    /\ current_allocated = 0
    /\ max_allocated = 0
    /\ live = {}
    /\ halted = "no"
    /\ last = [op |-> "none", size |-> 0, align |-> 0, ptr |-> 0, result |-> "ok",
               value |-> 0,
               pre |-> [head |-> 0, mem |-> <<>>, free |-> 0, region |-> NoRegion,
                        stats |-> [total_allocated |-> 0, total_freed |-> 0,
                                   allocation_count |-> 0, deallocation_count |-> 0,
                                   current_allocated |-> 0, max_allocated |-> 0]],
               prev |-> [op |-> "none", ptr |-> 0, result |-> "ok", free |-> 0]]
    /\ tight = NoLoop
    /\ pc = [p \in Procs |-> "idle"]
    /\ loc = [p \in Procs |-> Idle]
    /\ term = [write_str(NoTerminal, <<"$", " ">>) EXCEPT !.line = <<>>, !.last_scancode = 0]
    /\ fs = NoFs
    /\ cmd = NoCmd
    /\ keys = <<>>

\* the keyboard sends the event raw and read_line's loop reads it
Event(raw) ==
    /\ boot.pc = "read"
    /\ Len(keys) < MaxKeys
    /\ raw \in NextEvents(keys)
    /\ keys' = Append(keys, raw)
    /\ UNCHANGED <<tight, pc, loc, fs, cmd>>

\* read_line: an iteration that pushes nothing and does not end the line
ReadQuiet(raw) ==
    /\ Event(raw)
    /\ KeyKind(term, raw) \in {"skip", "backspace", "shift", "ignored", "unknown"}
    /\ term' = AfterQuietKey(term, raw)
    /\ ListFrame /\ StatsUnchanged
    /\ UNCHANGED <<live, region, halted, last, boot>>

\* read_line, lines 286-297: line.push(ascii_char) and its echo; the push on
\* a String without a buffer asks the global allocator for 8 bytes, align 1
ReadPush(raw) ==
    /\ Event(raw)
    /\ KeyKind(term, raw) = "push"
    /\ LET sc == read_byte_value(raw)
           t2 == [read_byte_term(term, raw) EXCEPT !.last_scancode = sc]
           ch == ascii_char(t2, sc)
       IN  IF live = {}
           THEN /\ alloc(8, 1)
                /\ boot' = [boot EXCEPT !.allocs = @ + 1,
                                        !.pc = IF last'.result = "ok" THEN "read"
                                               ELSE "alloc_error"]
                /\ term' = IF last'.result = "ok"
                           THEN [write_byte(t2, ch) EXCEPT !.line = <<ch>>]
                           ELSE t2
           ELSE /\ term' = [write_byte(t2, ch) EXCEPT !.line = Append(@, ch)]
                /\ ListFrame /\ StatsUnchanged
                /\ UNCHANGED <<live, region, halted, last, boot>>

\* read_line, lines 262-265 and 306: the echo of '\n', break, the line is
\* returned
ReadEnter(raw) ==
    /\ Event(raw)
    /\ KeyKind(term, raw) = "enter"
    /\ term' = write_byte([read_byte_term(term, raw) EXCEPT !.last_scancode = 28], "\n")
    /\ boot' = [boot EXCEPT !.pc = "returned"]
    /\ ListFrame /\ StatsUnchanged
    /\ UNCHANGED <<live, region, halted, last>>

NextLine ==
    \/ \E raw \in LineKeys \cup {Release(k) : k \in LineKeys} : ReadQuiet(raw)
    \/ \E raw \in LineKeys : ReadPush(raw)
    \/ \E raw \in LineKeys : ReadEnter(raw)

SpecLine == InitLine /\ [][NextLine]_vars

\* the character of a key under the tables, or "NUL"
KeyChar(shift, k) == IF shift THEN SCANCODE_TO_UPPERCASE(k) ELSE SCANCODE_TO_ASCII(k)

\* the line the events h spell: one character per press of a printable key,
\* in press order, the last one taken back by a backspace, up to Enter
RECURSIVE Typed(_, _, _)
Typed(h, shift, line) ==
    IF h = <<>> THEN line
    ELSE LET raw == Head(h)
             r   == Tail(h)
         IN  IF raw = 28 THEN line
             ELSE IF raw \in {Release(42), Release(54)} THEN Typed(r, FALSE, line)
             ELSE IF raw >= 128 THEN Typed(r, shift, line)
             ELSE IF raw \in {42, 54} THEN Typed(r, TRUE, line)
             ELSE IF raw = 14
                  THEN Typed(r, shift, IF line = <<>> THEN line
                                       ELSE SubSeq(line, 1, Len(line) - 1))
             ELSE IF KeyChar(shift, raw) # "NUL"
                  THEN Typed(r, shift, Append(line, KeyChar(shift, raw)))
             ELSE Typed(r, shift, line)

\* C40 (as claimed): for every sequence of press and release scancodes that
\* ends with Enter, read_line returns one character per press of a printable
\* key, in press order, also when the same key is pressed twice in a row with
\* its release in between.
C40_LineIsWhatWasTyped ==
    boot.pc = "returned" => term.line = Typed(keys, FALSE, <<>>)

(***************************************************************************)
(* SpecRm: one call of Terminal::handle_rm_command                         *)
(***************************************************************************)
\* fs/new_fs/mod.rs:34: the bytes MemoryBlockDevice::new asks for
DeviceSize == 1024 * 1024

\* a region that can hold the block device
BigHeap == 2 * DeviceSize

\* the capacity format! asks for: twice the length of the literal pieces of
\* "Are you sure you want to delete '{}'{}? (y/N): " and of
\* "'{}' deleted successfully\n"
PromptCapacity == 2 * 43

ReportCapacity == 2 * 24

\* the words after "rm" on the command line, the file name being "x"
RmWords == {"-r", "-f", "x"}

RmParts == {<<"rm">>} \cup {<<"rm", a>> : a \in RmWords}
               \cup {<<"rm", a, b>> : a \in RmWords, b \in RmWords}

\* the lines read_line may return to the confirmation prompt
Responses == {<<>>, <<"y">>, <<"Y">>, <<"n">>, <<"y", "e">>}

NoAlloc == [ptr |-> 0, size |-> 0, align |-> 0]

\* lines 398-404: the options and the name, over parts.iter().skip(1)
RECURSIVE ParseFrom(_, _, _)
ParseFrom(parts, i, acc) ==
    IF i > Len(parts) THEN acc
    ELSE ParseFrom(parts, i + 1,
                   IF parts[i] = "-r" THEN [acc EXCEPT !.recursive = TRUE]
                   ELSE IF parts[i] = "-f" THEN [acc EXCEPT !.force = TRUE]
                   ELSE [acc EXCEPT !.name = parts[i]])

\* a test that takes every response but "n" for a yes
ConfirmedUnlessNo(response) == response # <<"n">>

\* line 414, negated: the response is "y" or "Y"
Confirmed(response) == response = <<"y">> \/ response = <<"Y">>

\* write_str of n bytes none of which is '\n' (nothing more is written once
\* the screen has scrolled MaxNewLines times)
RECURSIVE write_bytes(_, _)
write_bytes(t, n) ==
    IF n = 0 \/ t.newlines >= MaxNewLines THEN t
    ELSE write_bytes(write_byte(t, "c"), n - 1)

\* the length of the confirmation prompt for the one-byte name "x"
PromptLen(recursive) == 43 + 1 + (IF recursive THEN 21 ELSE 0)

\* where the handler goes after an allocator call
After(call, to) ==
    IF call.result = "ok" THEN to
    ELSE IF call.result = "null" THEN "alloc_error" ELSE "halted"

\* the command is dispatched (process_command, lines 626-628) with the
\* allocator never initialised (heap_size 0 here), initialised with the
\* region of allocator.rs:5-6, or with a region that holds the block device
InitRm ==
    /\ \E heap_size \in {0, HEAP_SIZE, BigHeap} :
          /\ region = IF heap_size = 0 THEN NoRegion
                      ELSE [start |-> HEAP_START, size |-> heap_size]
          /\ head = IF heap_size = 0 THEN 0 ELSE HEAP_START
          /\ mem = IF heap_size = 0 THEN <<>>
                   ELSE add_free_region_mem(<<>>, 0, HEAP_START, heap_size)
          /\ boot = [pc |-> "command", inits |-> IF heap_size = 0 THEN 0 ELSE 1,
                     allocs |-> 0]
    /\ total_allocated = 0
    /\ total_freed = 0
    /\ allocation_count = 0
    /\ deallocation_count = 0
    /\ current_allocated = 0
    /\ max_allocated = 0
    /\ live = {}
    /\ halted = "no"
    /\ last = [op |-> "none", size |-> 0, align |-> 0, ptr |-> 0, result |-> "ok",
               value |-> 0,
               pre |-> [head |-> 0, mem |-> <<>>, free |-> 0, region |-> NoRegion,
                        stats |-> [total_allocated |-> 0, total_freed |-> 0,
                                   allocation_count |-> 0, deallocation_count |-> 0,
                                   current_allocated |-> 0, max_allocated |-> 0]],
               prev |-> [op |-> "none", ptr |-> 0, result |-> "ok", free |-> 0]]
    /\ tight = NoLoop
    /\ pc = [p \in Procs |-> "idle"]
    /\ loc = [p \in Procs |-> Idle]
    /\ term = NoTerminal
    /\ fs = NoFs
    /\ \E parts \in RmParts : cmd = [NoCmd EXCEPT !.pc = "start", !.parts = parts]
    /\ keys = <<>>

RmFrame == UNCHANGED <<tight, pc, loc, boot, fs, keys>>

NoAllocatorCall ==
    /\ ListFrame /\ StatsUnchanged
    /\ UNCHANGED <<live, region, halted, last>>

\* lines 387-410: the usage message, the options, the missing name
RmParse ==
    /\ cmd.pc = "start"
    /\ LET args == ParseFrom(cmd.parts, 2, cmd)
       IN  IF Len(cmd.parts) < 2
           THEN /\ cmd' = [cmd EXCEPT !.pc = "return", !.out = "Usage"]
                /\ term' = write_byte(write_bytes(term, 26), "\n")
           ELSE IF args.name = ""
           THEN /\ cmd' = [args EXCEPT !.pc = "return", !.out = "No file"]
                /\ term' = write_byte(write_bytes(term, 37), "\n")
           ELSE /\ cmd' = [args EXCEPT !.pc = IF args.force THEN "device" ELSE "prompt"]
                /\ term' = term
    /\ NoAllocatorCall
    /\ RmFrame

\* lines 411-412: format! builds the prompt in a String
RmPromptFormat ==
    /\ cmd.pc = "prompt"
    /\ alloc(PromptCapacity, 1)
    /\ cmd' = [cmd EXCEPT !.pc = After(last', "prompt_write"),
                          !.buf = [ptr |-> last'.ptr, size |-> PromptCapacity,
                                   align |-> 1]]
    /\ term' = term
    /\ RmFrame

\* lines 411-412: write_str of the prompt, the String is dropped
RmPromptWrite ==
    /\ cmd.pc = "prompt_write"
    /\ dealloc(cmd.buf)
    /\ cmd' = [cmd EXCEPT !.pc = "read", !.buf = NoAlloc]
    /\ term' = write_bytes(term, PromptLen(cmd.recursive))
    /\ RmFrame

\* line 413: read_line returns the response; a response that is not empty
\* lives in a buffer of 8 bytes
RmReadLine(response) ==
    /\ cmd.pc = "read"
    /\ IF response = <<>>
       THEN /\ NoAllocatorCall
            /\ cmd' = [cmd EXCEPT !.pc = "check", !.response = response,
                                  !.answered = TRUE]
            /\ term' = write_byte(term, "\n")
       ELSE /\ alloc(8, 1)
            /\ cmd' = [cmd EXCEPT !.pc = After(last', "check"),
                                  !.response = IF last'.result = "ok" THEN response
                                               ELSE <<>>,
                                  !.answered = last'.result = "ok",
                                  !.resp = [ptr |-> last'.ptr, size |-> 8, align |-> 1]]
            /\ term' = IF last'.result = "ok"
                       THEN write_byte(write_bytes(term, Len(response)), "\n")
                       ELSE term
    /\ RmFrame

\* lines 414-418: the response is compared, then dropped
RmCheck ==
    /\ cmd.pc = "check"
    /\ IF cmd.resp = NoAlloc THEN NoAllocatorCall ELSE dealloc(cmd.resp)
    /\ IF Confirmed(cmd.response)
       THEN /\ cmd' = [cmd EXCEPT !.pc = "device", !.resp = NoAlloc]
            /\ term' = term
       ELSE /\ cmd' = [cmd EXCEPT !.pc = "return", !.resp = NoAlloc,
                                  !.out = "Deletion cancelled"]
            /\ term' = write_byte(write_bytes(term, 18), "\n")
    /\ RmFrame

\* lines 421-423: MemoryBlockDevice::new, vec![0; size]
RmDevice ==
    /\ cmd.pc = "device"
    /\ alloc(DeviceSize, 1)
    /\ cmd' = [cmd EXCEPT !.pc = After(last', "delete"),
                          !.dev = [ptr |-> last'.ptr, size |-> DeviceSize, align |-> 1]]
    /\ term' = term
    /\ RmFrame

\* lines 425-426: fs.delete_item(name, recursive) returns Ok(()); format!
\* builds the report
RmDelete ==
    /\ cmd.pc = "delete"
    /\ alloc(ReportCapacity, 1)
    /\ cmd' = [cmd EXCEPT !.pc = After(last', "report_write"),
                          !.deleted = @ + 1,
                          !.buf = [ptr |-> last'.ptr, size |-> ReportCapacity,
                                   align |-> 1]]
    /\ term' = term
    /\ RmFrame

\* line 426: write_str of the report, the String is dropped
RmReportWrite ==
    /\ cmd.pc = "report_write"
    /\ dealloc(cmd.buf)
    /\ cmd' = [cmd EXCEPT !.pc = "drop", !.buf = NoAlloc, !.out = "deleted successfully"]
    /\ term' = write_byte(write_bytes(term, 24), "\n")
    /\ RmFrame

\* line 429: the block device is dropped, the handler returns
RmReturn ==
    /\ cmd.pc = "drop"
    /\ dealloc(cmd.dev)
    /\ cmd' = [cmd EXCEPT !.pc = "return", !.dev = NoAlloc]
    /\ term' = term
    /\ RmFrame

NextRm ==
    \/ RmParse
    \/ RmPromptFormat
    \/ RmPromptWrite
    \/ \E response \in Responses : RmReadLine(response)
    \/ RmCheck
    \/ RmDevice
    \/ RmDelete
    \/ RmReportWrite
    \/ RmReturn

SpecRm == InitRm /\ [][NextRm]_vars

\* C38: handle_rm_command calls delete_item only if -f was given or the
\* confirmation line read is exactly "y" or "Y"; after any other response it
\* prints "Deletion cancelled", returns, and has not called delete_item.
C38_DeleteOnlyWhenConfirmed ==
    /\ cmd.deleted <= 1
    /\ cmd.deleted = 1 =>
           \/ cmd.force
           \/ cmd.answered /\ (cmd.response = <<"y">> \/ cmd.response = <<"Y">>)
    /\ (cmd.answered /\ cmd.pc # "check"
            /\ cmd.response # <<"y">> /\ cmd.response # <<"Y">>) =>
           /\ cmd.pc = "return"
           /\ cmd.out = "Deletion cancelled"
           /\ cmd.deleted = 0

\* delete_item was called after the prompt was answered "y", without -f
C38_Witness ==
    /\ cmd.deleted = 1
    /\ ~cmd.force
    /\ cmd.answered
    /\ cmd.response = <<"y">>
    /\ cmd.pc = "return"
====
